---- MODULE Spec2Model ----
(***************************************************************************)
(* PrinterService of Reactive-Resume (src/unnamed/part_001): the retry     *)
(* orchestrator (printResume / printPreview), one generation attempt       *)
(* (generateResume / generatePreview) as a sequence of awaited remote      *)
(* operations on a browser session, the pdf-lib merge and the upload.      *)
(***************************************************************************)
EXTENDS Integers, Sequences, FiniteSets, TLC

\* ------------------------------------------------------------------------
\* Bounds of the model
\* ------------------------------------------------------------------------

\* largest number of logical pages in a request's layout
MaxPages == 2

\* largest number of requests the page issues while one attempt is observed
MaxRequests == 2

\* largest number of other top-level requests that connect meanwhile
MaxOthers == 1

\* largest number of getVersion calls that are followed
MaxCalls == 3

\* largest number of basics.customFields
MaxFields == 3

\* largest number of keywords of one item
MaxKeywords == 3

\* largest width of the keyword container
MaxWidth == 4

\* ------------------------------------------------------------------------
\* Program constants and inputs
\* ------------------------------------------------------------------------

\* retry(..., { retries: 3 }): the number of RE-tries async-retry grants
retries == 3

\* the resume handed to printResume / printPreview (identifying fields)
resume == [id |-> "resume-id", userId |-> "user-id", title |-> "resume-title"]

\* a logical page is a pair of columns, each a list of section keys
PageAB == << <<"A", "B">>, <<"E">> >>
PageCD == << <<"C", "D">>, <<"F">> >>

\* a layout of n logical pages with distinguishable content
LayoutOf(n) == [i \in 1..n |-> IF i % 2 = 1 THEN PageAB ELSE PageCD]

\* resume.data.metadata.layout values a request may carry
Layouts == {LayoutOf(n) : n \in 0..MaxPages}

\* columns with no, one or two section keys, and all layouts of up to
\* MaxPages pages made of them: keys may repeat within and across pages
Columns == {<<>>, <<"A">>, <<"B">>, <<"B", "A">>}

AnyLayouts ==
    UNION {[1..n -> Columns \X Columns] : n \in 0..MaxPages}

\* the format argument; "none" is the omitted argument
Formats == {"none", "A4", "Letter"}

\* PUBLIC_URL / STORAGE_URL, as lists of lexical tokens
Configs ==
    { [publicUrl |-> <<"http://", "localhost", ":3000">>,
       storageUrl |-> <<"http://", "localhost", ":3001", "/api">>],
      [publicUrl |-> <<"https://", "example.com">>,
       storageUrl |-> <<"https://", "example.com", "/storage">>] }

Range(s) == {s[i] : i \in 1..Len(s)}

\* /https?:\/\/localhost(:\d+)?/.test(url)
IsLoopback(url) ==
    \E i \in 1..(Len(url) - 1) :
        url[i] \in {"http://", "https://"} /\ url[i + 1] = "localhost"

\* url.replace(/localhost(:\d+)?/, (_m, port) => `host.docker.internal${port ?? ""}`)
\* only the first match is replaced; the port token that follows is kept
ReplaceLocalhost(url) ==
    IF \E i \in 1..Len(url) : url[i] = "localhost"
    THEN LET first == CHOOSE i \in 1..Len(url) :
                          /\ url[i] = "localhost"
                          /\ \A j \in 1..(i - 1) : url[j] # "localhost"
         IN  [url EXCEPT ![first] = "host.docker.internal"]
    ELSE url

\* a condition that asks for the rewrite whatever the origins are
RequiresRewrite_Always(cfg) == TRUE

\* [publicUrl, storageUrl].some((url) => /https?:\/\/localhost(:\d+)?/.test(url))
RequiresRewrite(cfg) == IsLoopback(cfg.publicUrl) \/ IsLoopback(cfg.storageUrl)

\* lines 101-109 / 315-320: the navigation target
ResolveUrl(cfg) ==
    IF RequiresRewrite(cfg)
    THEN ReplaceLocalhost(cfg.publicUrl)
    ELSE cfg.publicUrl

\* request.url().startsWith(storageUrl)
StartsWith(url, prefix) ==
    Len(prefix) <= Len(url) /\ SubSeq(url, 1, Len(prefix)) = prefix

\* values of PUBLIC_URL: a loopback origin, a public host, and a public host
\* whose name begins with the text localhost
PublicUrls ==
    { <<"http://", "localhost", ":3000">>,
      <<"https://", "example.com">>,
      <<"https://", "localhost", ".example.com">> }

\* values of STORAGE_URL: a loopback one and a public one
StorageUrls ==
    { <<"http://", "localhost", ":3001", "/api">>,
      <<"https://", "cdn.example.com", "/storage">> }

UrlConfigs == [publicUrl : PublicUrls, storageUrl : StorageUrls]

\* URLs the page asks for: the document it navigates to, and an object below
\* the storage URL whose name contains the text localhost
RequestUrls(cfg, url) ==
    { url \o <<"/artboard/preview">>,
      cfg.storageUrl \o <<"/", "localhost", ".png">> }

\* a request as the page issued it: not yet continued by anybody
NewRequest(url, intercepted) ==
    [url |-> url, intercepted |-> intercepted,
     event |-> IF intercepted THEN "pending" ELSE "none",
     continues |-> 0, continuedUrl |-> <<>>]

\* a handler that forgets the requests it does not rewrite
RequestHandler_DropsOthers(request, storageUrl) ==
    IF StartsWith(request.url, storageUrl)
    THEN [request EXCEPT !.event = "handled", !.continues = @ + 1,
                         !.continuedUrl = ReplaceLocalhost(request.url)]
    ELSE [request EXCEPT !.event = "handled"]

\* the listener of lines 114-124: one request.continue per event, with the
\* rewritten URL when the request's URL starts with the storage URL
RequestHandler(request, storageUrl) ==
    IF StartsWith(request.url, storageUrl)
    THEN [request EXCEPT !.event = "handled", !.continues = @ + 1,
                         !.continuedUrl = ReplaceLocalhost(request.url)]
    ELSE [request EXCEPT !.event = "handled", !.continues = @ + 1,
                         !.continuedUrl = request.url]

\* ------------------------------------------------------------------------
\* Errors
\* ------------------------------------------------------------------------

\* an error rejected by a remote operation; its message names the stage
StageError(stage) == [name |-> "Error", message |-> stage, description |-> ""]

\* new InternalServerErrorException(code, description): message is the code
InternalServerErrorException(code, description) ==
    [name |-> "InternalServerErrorException", message |-> code,
     description |-> description]

NoError == [name |-> "", message |-> "", description |-> ""]

\* a catch clause that rethrows what it caught
ResumePrinterError_Rethrow(error) == error

\* the exception generateResume's catch clause throws for a caught error
ResumePrinterError(error) ==
    InternalServerErrorException("ResumePrinterError", error.message)

\* a getBrowser that drops the transport error's message
InvalidBrowserConnection_NoMessage(error) ==
    InternalServerErrorException("InvalidBrowserConnection", "")

\* the exception getBrowser throws for a transport error
InvalidBrowserConnection(error) ==
    InternalServerErrorException("InvalidBrowserConnection", error.message)

ErrorCodes == {"InvalidBrowserConnection", "ResumePrinterError"}

\* the stages of the error taxonomy
Stages == {"connect", "navigation", "timeout", "capture", "assembly",
           "publish", "teardown"}

\* ------------------------------------------------------------------------
\* Layout merge (generateResume, lines 129-140)
\* ------------------------------------------------------------------------

RECURSIVE ReduceLayout(_, _)
\* originalLayout.reduce((acc, page) => [[...acc[0], ...page[0]], [...acc[1], ...page[1]]], acc0)
ReduceLayout(acc, layout) ==
    IF layout = <<>> THEN acc
    ELSE ReduceLayout(<< acc[1] \o Head(layout)[1], acc[2] \o Head(layout)[2] >>,
                      Tail(layout))

\* a merge that takes the pages last to first
mergedPage_LastPageFirst(originalLayout) ==
    ReduceLayout(<< <<>>, <<>> >>,
                 [i \in 1..Len(originalLayout) |->
                     originalLayout[Len(originalLayout) + 1 - i]])

\* a merge that confuses the two columns of the accumulator
mergedPage_ColumnsSwapped(originalLayout) ==
    LET merged == ReduceLayout(<< <<>>, <<>> >>, originalLayout)
    IN  << merged[2], merged[1] >>

mergedPage(originalLayout) == ReduceLayout(<< <<>>, <<>> >>, originalLayout)

\* a merge that leaves the original pages behind the merged one
LayoutAfterMerge_KeepsPages(fmt, originalLayout) ==
    IF fmt = "none" THEN <<mergedPage(originalLayout)>> \o originalLayout
    ELSE originalLayout

\* a generateResume that never merges the pages
LayoutAfterMerge_NoMerge(fmt, originalLayout) == originalLayout

\* if (!format) { ...; resume.data.metadata.layout = [mergedPage] }
LayoutAfterMerge(fmt, originalLayout) ==
    IF fmt = "none" THEN <<mergedPage(originalLayout)>> ELSE originalLayout

\* ------------------------------------------------------------------------
\* pdf-lib and buffers
\* ------------------------------------------------------------------------

\* a buffer returned by page.pdf / page.screenshot: the pages it shows
\* (0 is a page without any [data-page] container) and whether pdf-lib can
\* parse it
BlankPage == 0

Buffer(pages, valid) == [pages |-> pages, valid |-> valid]

PageIndices(n) == [i \in 1..n |-> i]

\* what an export of the whole document shows: one physical page per
\* [data-page] container (forced page breaks), a blank page if there is none
DocumentPages(dom) == IF dom = <<>> THEN <<BlankPage>> ELSE dom

Reverse(seq) == [i \in 1..Len(seq) |-> seq[Len(seq) + 1 - i]]

\* a merge loop that adds the copied pages last to first
CopyPages_Reversed(pdf, pages) == pdf \o Reverse(pages)

\* a merge loop that copies only the first page of each buffer
CopyPages_FirstOnly(pdf, pages) == IF pages = <<>> THEN pdf ELSE Append(pdf, pages[1])

\* copiedPages = await pdf.copyPages(page, page.getPageIndices());
\* copiedPages.forEach((page) => pdf.addPage(page))
CopyPages(pdf, pages) == pdf \o pages

RECURSIVE SumPages(_)
SumPages(buffers) ==
    IF buffers = <<>> THEN 0
    ELSE Len(Head(buffers).pages) + SumPages(Tail(buffers))

RECURSIVE ConcatPages(_)
ConcatPages(buffers) ==
    IF buffers = <<>> THEN <<>>
    ELSE Head(buffers).pages \o ConcatPages(Tail(buffers))

\* ------------------------------------------------------------------------
\* async-retry bookkeeping (node-retry RetryOperation)
\* ------------------------------------------------------------------------

Messages == Stages \cup ErrorCodes

\* RetryOperation._errors, kept as the running state of mainError's scan:
\* the occurrences of each message, and the error whose message has been
\* seen at least as often as every other one (the later error on a tie)
NoErrors == [counts |-> [m \in Messages |-> 0], error |-> NoError, count |-> 0]

PushError(main, e) ==
    LET c == main.counts[e.message] + 1
    IN  [counts |-> [main.counts EXCEPT ![e.message] = c],
         error  |-> IF c >= main.count THEN e ELSE main.error,
         count  |-> IF c >= main.count THEN c ELSE main.count]

\* a retry budget that counts the first invocation as one of the `retries`
MayRetry_CountsFirst(n) == n < retries

\* op.retry(err) after the n-th invocation failed: true while one of the
\* `retries` timeouts is left
MayRetry(n) == n <= retries

\* a retry log that numbers the attempt about to start instead of the failed one
onRetry_NextAttempt(which, n) == [kind |-> which, id |-> resume.id, attempt |-> n + 1]

\* onRetry: (_, attempt) => this.logger.log(`Retrying to ... #${resume.id}, attempt #${attempt}`)
onRetry(which, n) == [kind |-> which, id |-> resume.id, attempt |-> n]

NoUrl == [owner |-> "", category |-> "", name |-> ""]

\* the URL storageService.uploadObject returns for an object
ObjectUrl(owner, category, name) ==
    [owner |-> owner, category |-> category, name |-> name]

\* ------------------------------------------------------------------------
\* State
\* ------------------------------------------------------------------------

VARIABLES
    kind,        \* "print" (printResume) or "preview" (printPreview)
    format,      \* the format argument of printResume
    config,      \* PUBLIC_URL and STORAGE_URL
    cssVisible,  \* resume.data.metadata.css.visible
    layout0,     \* resume.data.metadata.layout when the request was made
    layout,      \* resume.data.metadata.layout now
    attempt,     \* number of invocations of the generation function
    mainErr,     \* errors collected by the retry operation
    logs,        \* retry log entries written by onRetry
    result,      \* what the caller of printResume / printPreview receives
    pc,          \* position of the request
    err,         \* the error being thrown by the current attempt
    loc,         \* local variables of the current attempt
    sessions,    \* the connection and tab of the running attempt, and how
                 \* many connections and tabs are open in the remote browser
    storage,     \* window.localStorage "resume" of the target origin
    page,        \* the tab the running attempt works on
    published,   \* objects stored by storageService.uploadObject
    requests,    \* the requests the tab has issued
    health,      \* the getVersion call under way and the calls that are over
    arceus,      \* the Arceus template: resume.basics of the artboard store
                 \* and the header rendered from it
    optimized,   \* an OptimizedKeywords component: its keywords prop and its
                 \* lines state
    tool         \* a run of the generate-preview tool

reqVars == <<kind, format, config, cssVisible, layout0>>
retryVars == <<attempt, mainErr, logs, result>>
browserVars == <<sessions, storage, page>>
vars == <<reqVars, layout, retryVars, pc, err, loc, browserVars, published, requests,
          health, arceus, optimized, tool>>

NoData == [present |-> FALSE, layout |-> <<>>]

\* no connection: before getBrowser of an attempt has returned
NoSession == [id |-> 0, connected |-> FALSE, tab |-> "none", opens |-> 0,
              closes |-> 0, disconnects |-> 0]

\* the remote browser before the request: nobody is connected.  `connections`
\* counts the connections it has accepted, `connectCalls` the calls of
\* connect() this request has made, `earlier` holds the sessions of this
\* request's former attempts and `others` those of other requests.
NoSessions == [current |-> NoSession, openConnections |-> 0, openTabs |-> 0,
               connections |-> 0, connectCalls |-> 0, earlier |-> {}, others |-> {}]

\* a getBrowser that hands out the connection made last, if there is one
NextSessionId_Cached(s) == IF s.connections = 0 THEN 1 ELSE s.connections

\* connect() makes a new connection: it is none of those made before
NextSessionId(s) == s.connections + 1

\* a tab right after browser.newPage(): body 0 is the document's own markup,
\* body k > 0 is the isolated clone of logical page k
NewTab == [doc |-> "blank", dom |-> <<>>, renderPending |-> FALSE, body |-> 0,
           interception |-> FALSE, onRequest |-> FALSE, hook |-> FALSE,
           customCss |-> FALSE, printStyles |-> FALSE]

LocInit == [url |-> <<>>, numberPages |-> 0, index |-> 0, pagesBuffer |-> <<>>,
            pageElement |-> 0, temporaryHtml |-> 0,
            reload |-> "idle", wait |-> "idle", markerDoc |-> "none",
            pdf |-> <<>>, element |-> 0, resumeUrl |-> NoUrl,
            exports |-> 0, uploads |-> 0, delivered |-> <<>>]

Pending == [status |-> "pending", url |-> NoUrl, error |-> NoError]

\* ------------------------------------------------------------------------
\* Arceus template: Header
\* ------------------------------------------------------------------------

\* isUrl of @reactive-resume/utils: the text holds http:// or https://
\* followed by at least one character
isUrl(href) ==
    \E i \in 1..Len(href) : href[i] \in {"http://", "https://"} /\ i < Len(href)

\* basics.url.href values: unset, without a scheme, a scheme alone, a URL
Hrefs == {<<>>, <<"example.com">>, <<"https://">>, <<"https://", "example.com">>}

\* basics.customFields: the ids of up to MaxFields fields
CustomFields == {[i \in 1..n |-> i] : n \in 0..MaxFields}

\* resume.basics values; "" is an unset text
AnyBasics ==
    [email : {"", "jane@example.com"}, phone : {"", "555-0100"},
     location : {"", "Berlin"}, url : Hrefs, customFields : CustomFields]

\* the template before Header has rendered
NoHeader == [basics |-> [email |-> "", phone |-> "", location |-> "",
                         url |-> <<>>, customFields |-> <<>>],
             rendered |-> FALSE, left |-> <<>>, center |-> <<>>, right |-> <<>>]

\* basics.customFields.filter((_, i) => i % 2 !== 0): i counts from 0
OddFields(basics) ==
    SelectSeq(basics.customFields, LAMBDA id : (id - 1) % 2 # 0)

\* basics.customFields.filter((_, i) => i % 2 === 0)
EvenFields(basics) ==
    SelectSeq(basics.customFields, LAMBDA id : (id - 1) % 2 = 0)

leftCount(basics) ==
    (IF basics.email # "" THEN 1 ELSE 0) + Len(OddFields(basics))

rightCount(basics) ==
    (IF isUrl(basics.url) THEN 1 ELSE 0) + Len(EvenFields(basics))

\* a placement that sends the phone to the right on equal counts
phonePosition_NeverCenter(basics) ==
    IF leftCount(basics) >= rightCount(basics) THEN "right" ELSE "left"

\* leftCount > rightCount ? "right" : rightCount > leftCount ? "left" : "center"
phonePosition(basics) ==
    IF leftCount(basics) > rightCount(basics) THEN "right"
    ELSE IF rightCount(basics) > leftCount(basics) THEN "left"
    ELSE "center"

\* the elements a column renders
Item(type, value) == [type |-> type, value |-> value]

\* {cond && <element/>}
When(cond, item) == IF cond THEN <<item>> ELSE <<>>

FieldItems(fields) == [i \in 1..Len(fields) |-> Item("custom", fields[i])]

\* Left: phone if placed left, email, custom fields at odd indices
LeftColumn(basics) ==
    When(phonePosition(basics) = "left" /\ basics.phone # "",
         Item("phone", basics.phone))
    \o When(basics.email # "", Item("email", basics.email))
    \o FieldItems(OddFields(basics))

\* Center: location, phone if placed in the center
CenterColumn(basics) ==
    When(basics.location # "", Item("location", basics.location))
    \o When(phonePosition(basics) = "center" /\ basics.phone # "",
            Item("phone", basics.phone))

\* Right: phone if placed right, website, custom fields at even indices
RightColumn(basics) ==
    When(phonePosition(basics) = "right" /\ basics.phone # "",
         Item("phone", basics.phone))
    \o When(isUrl(basics.url), Item("url", basics.url))
    \o FieldItems(EvenFields(basics))

\* ------------------------------------------------------------------------
\* Arceus template: OptimizedKeywords
\* ------------------------------------------------------------------------

separator == " | "

\* context.measureText(text).width in the font of the container
measureText(text) ==
    CASE text = "a" -> 1
      [] text = "bb" -> 2
      [] text = "cc" -> 2
      [] text = separator -> 1

\* the keywords arrays an item may carry: texts may repeat
AnyKeywords == UNION {[1..n -> {"a", "bb", "cc"}] : n \in 0..MaxKeywords}

\* keywords.map((k) => ({ text: k, width: context.measureText(k).width }))
measuredKeywords(keywords) ==
    [i \in 1..Len(keywords) |-> [text |-> keywords[i], width |-> measureText(keywords[i])]]

\* where the stable sort puts an entry among those sorted before it: behind
\* every entry that is at least as wide
InsertByWidth(sorted, entry) ==
    LET k == Cardinality({i \in 1..Len(sorted) : sorted[i].width >= entry.width})
    IN  SubSeq(sorted, 1, k) \o <<entry>> \o SubSeq(sorted, k + 1, Len(sorted))

RECURSIVE SortDescending(_)
\* measuredKeywords.sort((a, b) => b.width - a.width)
SortDescending(entries) ==
    IF entries = <<>> THEN <<>>
    ELSE InsertByWidth(SortDescending(SubSeq(entries, 1, Len(entries) - 1)),
                       entries[Len(entries)])

\* a fit test that forgets the separator
widthToAdd_NoSeparator(line, width) == width

\* (newLines[i].length > 0 ? separatorWidth : 0) + width
widthToAdd(line, width) ==
    (IF Len(line) > 0 THEN measureText(separator) ELSE 0) + width

\* the for loop over the existing lines: the first index whose line takes
\* the keyword, 0 when none does
FirstFit(newLines, lineWidths, width, containerWidth) ==
    LET fitting == {i \in 1..Len(newLines) :
                       lineWidths[i] + widthToAdd(newLines[i], width) <= containerWidth}
    IN  IF fitting = {} THEN 0
        ELSE CHOOSE i \in fitting : \A j \in fitting : i <= j

\* the body of measuredKeywords.forEach for one entry
Place(acc, entry, containerWidth) ==
    LET i == FirstFit(acc.newLines, acc.lineWidths, entry.width, containerWidth)
    IN  IF i # 0
        THEN [newLines |-> [acc.newLines EXCEPT ![i] = Append(@, entry.text)],
              lineWidths |-> [acc.lineWidths EXCEPT
                                 ![i] = @ + widthToAdd(acc.newLines[i], entry.width)]]
        ELSE [newLines |-> Append(acc.newLines, <<entry.text>>),
              lineWidths |-> Append(acc.lineWidths, entry.width)]

RECURSIVE PlaceAll(_, _, _)
\* measuredKeywords.forEach(...)
PlaceAll(acc, entries, containerWidth) ==
    IF entries = <<>> THEN acc
    ELSE PlaceAll(Place(acc, Head(entries), containerWidth), Tail(entries),
                  containerWidth)

\* the lines computeLayout hands to setLines
newLines(keywords, containerWidth) ==
    PlaceAll([newLines |-> <<>>, lineWidths |-> <<>>],
             SortDescending(measuredKeywords(keywords)), containerWidth).newLines

\* a component that has not been mounted: `passed` is the array the parent
\* passed as the keywords prop, `keywords` is what that array holds now
NoKeywords == [passed |-> <<>>, keywords |-> <<>>, width |-> 0,
               lines |-> <<>>, layoutWidth |-> 0, fonts |-> FALSE]

\* computeLayout: leaves everything as it is when the container has no width
computeLayout(view) ==
    IF view.width = 0 THEN view
    ELSE [view EXCEPT !.lines = newLines(view.keywords, view.width),
                      !.layoutWidth = view.width]

\* ------------------------------------------------------------------------
\* generate-preview tool
\* ------------------------------------------------------------------------

\* common Chrome paths on Windows/Mac/Linux
CHROME_PATHS ==
    <<"C:\\Program Files\\Google\\Chrome\\Application\\chrome.exe",
      "C:\\Program Files (x86)\\Google\\Chrome\\Application\\chrome.exe",
      "/Applications/Google Chrome.app/Contents/MacOS/Google Chrome",
      "/usr/bin/google-chrome",
      "/usr/bin/chromium-browser">>

NoPath == "none"

\* getExecutablePath: the first of CHROME_PATHS that exists, NoPath standing
\* for the thrown Error
getExecutablePath(existing) ==
    LET found == {i \in 1..Len(CHROME_PATHS) : CHROME_PATHS[i] \in existing}
    IN  IF found = {} THEN NoPath
        ELSE CHROME_PATHS[CHOOSE i \in found : \A j \in found : i <= j]

\* the tool before main is called.  existing: the files fs.existsSync finds;
\* sample: sample_arceus.json is "missing", "invalid" (not JSON) or "valid";
\* dir: the output directory exists; browser: the variable of line 43;
\* error: what the try block has thrown; logged: the errors the catch clause
\* has written; rejected: main's promise is rejected; exit: the exit code of
\* process.exit; written: the screenshot file has been written
NoRun == [pc |-> "idle", existing |-> {}, sample |-> "valid", dir |-> FALSE,
          browser |-> "undefined", launches |-> 0, closeCalls |-> 0,
          error |-> "none", logged |-> <<>>, rejected |-> FALSE,
          exit |-> "none", written |-> FALSE]

\* the runs the tool can be started in
AnyRuns ==
    {[NoRun EXCEPT !.existing = existing, !.sample = sample, !.dir = dir] :
        existing \in SUBSET Range(CHROME_PATHS),
        sample \in {"missing", "invalid", "valid"},
        dir \in BOOLEAN}

\* an await or a call inside the try block throws: control passes to catch
ToolThrow(run, e) == [run EXCEPT !.pc = "catch", !.error = e]

\* no getVersion call has been made
NoCalls == [pc |-> "idle", browser |-> NoSession, disconnectCalls |-> 0, calls |-> <<>>]

\* what is known of a getVersion call when it is over: the connection it
\* made, how often it called disconnect, and "ok" or the message of its error
CallOver(h, outcome) ==
    [NoCalls EXCEPT !.calls = Append(h.calls,
                        [browser |-> h.browser,
                         disconnectCalls |-> h.disconnectCalls,
                         outcome |-> outcome])]

Init ==
    /\ kind \in {"print", "preview"}
    /\ format \in Formats
    /\ kind = "preview" => format = "none"
    /\ config \in Configs
    /\ cssVisible \in BOOLEAN
    /\ layout0 \in Layouts
    /\ layout = layout0
    /\ attempt = 0
    /\ mainErr = NoErrors
    /\ logs = <<>>
    /\ result = Pending
    /\ pc = "start"
    /\ err = NoError
    /\ loc = LocInit
    /\ sessions = NoSessions
    /\ storage = NoData
    /\ page = NewTab
    /\ published = <<>>
    /\ requests = <<>>
    /\ health = NoCalls
    /\ arceus = NoHeader
    /\ optimized = NoKeywords
    /\ tool = NoRun


\* a rejected await after which the same operation is tried again in place
Throw_RetryInPlace(e) ==
    /\ err' = e
    /\ loc' = loc
    /\ pc' = pc

\* a rejected await: inside generateResume's try block control passes to the
\* catch clause, in generatePreview the rejection leaves the function; either
\* way the locals of the attempt are gone
Throw(e) ==
    /\ err' = e
    /\ loc' = LocInit
    /\ pc' = IF kind = "print" THEN "catch" ELSE "thrown"

\* the [data-page] containers a selector or an export can see
VisiblePages(tab) == IF tab.body = 0 THEN tab.dom ELSE <<tab.body>>

\* ------------------------------------------------------------------------
\* Retry orchestrator: printResume / printPreview
\* ------------------------------------------------------------------------

\* retry(fn, opts): the first invocation of the generation function
Retry ==
    /\ pc = "start"
    /\ attempt' = 1
    /\ loc' = LocInit
    /\ pc' = "getBrowser"
    /\ UNCHANGED <<reqVars, requests, health, arceus, optimized, tool, layout, mainErr, logs, result, err, browserVars, published>>

\* onError of async-retry: record the error, then either schedule a retry and
\* call onRetry(err, attempt), or reject with the operation's main error.
\* The attempt is over and nothing refers to its connection or tab any more.
OnError ==
    /\ pc = "thrown"
    /\ mainErr' = PushError(mainErr, err)
    /\ IF MayRetry(attempt)
       THEN /\ logs' = Append(logs, onRetry(kind, attempt))
            /\ pc' = "backoff"
            /\ UNCHANGED result
       ELSE /\ result' = [status |-> "error", url |-> NoUrl, error |-> mainErr'.error]
            /\ pc' = "done"
            /\ UNCHANGED logs
    /\ page' = NewTab
    /\ sessions' = [sessions EXCEPT
                       !.current = NoSession,
                       !.earlier = IF sessions.current.id = 0 THEN @
                                   ELSE @ \cup {sessions.current.id}]
    /\ UNCHANGED <<reqVars, requests, health, arceus, optimized, tool, layout, attempt, err, loc, storage, published>>

\* the backoff timer fires: the generation function is invoked again
RetryTimeout ==
    /\ pc = "backoff"
    /\ attempt' = attempt + 1
    /\ loc' = LocInit
    /\ err' = NoError
    /\ pc' = "getBrowser"
    /\ UNCHANGED <<reqVars, requests, health, arceus, optimized, tool, layout, mainErr, logs, result, browserVars, published>>

\* the generation function returned: retry resolves with its value
Resolve ==
    /\ pc = "returned"
    /\ result' = [status |-> "ok", url |-> loc.resumeUrl, error |-> NoError]
    /\ pc' = "done"
    /\ UNCHANGED <<reqVars, requests, health, arceus, optimized, tool, layout, attempt, mainErr, logs, err, loc, browserVars, published>>

\* ------------------------------------------------------------------------
\* Session acquisition and target resolution (both generation functions)
\* ------------------------------------------------------------------------

\* getBrowser: one connect; a failure is rethrown as InvalidBrowserConnection
\* carrying the transport error's message.  Every connection reaches the
\* same remote browser, whose localStorage outlives the connection.
getBrowser ==
    /\ pc = "getBrowser"
    /\ \/ /\ sessions' = [sessions EXCEPT
                            !.current = [NoSession EXCEPT
                                            !.id = NextSessionId(sessions),
                                            !.connected = TRUE],
                            !.openConnections = @ + 1,
                            !.connections = @ + 1,
                            !.connectCalls = @ + 1]
          /\ pc' = "newPage"
          /\ UNCHANGED <<err, loc, storage>>
       \/ /\ Throw(InvalidBrowserConnection(StageError("connect")))
          /\ sessions' = [sessions EXCEPT !.connectCalls = @ + 1]
          /\ UNCHANGED storage
    /\ UNCHANGED <<reqVars, requests, health, arceus, optimized, tool, layout, retryVars, page, published>>

\* browser.newPage()
newPage ==
    /\ pc = "newPage"
    /\ \/ /\ sessions' = [sessions EXCEPT !.current.tab = "open",
                                          !.current.opens = @ + 1,
                                          !.openTabs = @ + 1]
          /\ page' = NewTab
          /\ pc' = "resolveUrl"
          /\ UNCHANGED <<err, loc>>
       \/ /\ Throw(StageError("navigation"))
          /\ UNCHANGED <<sessions, page>>
    /\ UNCHANGED <<reqVars, requests, health, arceus, optimized, tool, layout, retryVars, storage, published>>

AfterInterception == IF kind = "print" THEN "mergeLayout" ELSE "evaluateOnNewDocument"

\* let url = publicUrl; if (loopback) url = url.replace(...)
resolveUrl ==
    /\ pc = "resolveUrl"
    /\ loc' = [loc EXCEPT !.url = ResolveUrl(config)]
    /\ pc' = IF RequiresRewrite(config)
             THEN "setRequestInterception"
             ELSE AfterInterception
    /\ UNCHANGED <<reqVars, requests, health, arceus, optimized, tool, layout, retryVars, err, browserVars, published>>

\* await page.setRequestInterception(true); page.on("request", handler)
setRequestInterception ==
    /\ pc = "setRequestInterception"
    /\ \/ /\ page' = [page EXCEPT !.interception = TRUE, !.onRequest = TRUE]
          /\ pc' = AfterInterception
          /\ UNCHANGED <<err, loc>>
       \/ /\ Throw(StageError("navigation"))
          /\ UNCHANGED page
    /\ UNCHANGED <<reqVars, requests, health, arceus, optimized, tool, layout, retryVars, sessions, storage, published>>

\* another top-level request runs getBrowser and browser.newPage() on the
\* same remote browser while this one is under way
concurrentRequest ==
    /\ pc \notin {"start", "done"}
    /\ Cardinality(sessions.others) < MaxOthers
    /\ sessions' = [sessions EXCEPT !.others = @ \cup {NextSessionId(sessions)},
                                    !.connections = @ + 1,
                                    !.openConnections = @ + 1,
                                    !.openTabs = @ + 1]
    /\ UNCHANGED <<reqVars, requests, health, arceus, optimized, tool, layout, retryVars, pc, err, loc, storage, page, published>>

\* ------------------------------------------------------------------------
\* The browser's own steps
\* ------------------------------------------------------------------------

AttemptRunning ==
    pc \notin {"start", "getBrowser", "newPage", "catch", "thrown", "backoff",
               "returned", "done"}

\* the artboard application renders the resume found in localStorage: one
\* [data-page] container per logical page, numbered from 1.  It runs some
\* time after the document was committed, independently of the load events
\* the service waits for.
Render ==
    /\ AttemptRunning
    /\ page.renderPending
    /\ page' = [page EXCEPT !.renderPending = FALSE,
                            !.dom = IF storage.present
                                    THEN PageIndices(Len(storage.layout))
                                    ELSE <<>>]
    /\ UNCHANGED <<reqVars, requests, health, arceus, optimized, tool, layout, retryVars, pc, err, loc, sessions, storage, published>>

\* the tab asks for a URL: the document of a navigation or something the
\* document needs.  With interception enabled the request is paused and a
\* "request" event is emitted; otherwise it goes out as it is.
request ==
    /\ sessions.current.tab = "open"
    /\ pc \in {"goto", "previewGoto"} \/ page.doc # "blank"
    /\ Len(requests) < MaxRequests
    /\ \E url \in RequestUrls(config, loc.url) :
          requests' = Append(requests, NewRequest(url, page.interception))
    /\ UNCHANGED <<reqVars, health, arceus, optimized, tool, layout, retryVars, pc, err, loc, browserVars, published>>

\* page.on("request", (request) => { ... }): the listener runs for one event
onRequest ==
    /\ page.onRequest
    /\ \E i \in 1..Len(requests) :
          /\ requests[i].event = "pending"
          /\ requests' = [requests EXCEPT ![i] = RequestHandler(@, config.storageUrl)]
    /\ UNCHANGED <<reqVars, health, arceus, optimized, tool, layout, retryVars, pc, err, loc, browserVars, published>>

\* ------------------------------------------------------------------------
\* generateResume
\* ------------------------------------------------------------------------

\* lines 127-144: without a format all pages are merged into one, and the
\* merged layout is stored in the resume; numberPages is read afterwards
mergeLayout ==
    /\ pc = "mergeLayout"
    /\ layout' = LayoutAfterMerge(format, layout)
    /\ loc' = [loc EXCEPT !.numberPages = Len(layout')]
    /\ pc' = "goto"
    /\ UNCHANGED <<reqVars, requests, health, arceus, optimized, tool, retryVars, err, browserVars, published>>

\* await page.goto(`${url}/artboard/preview`, { waitUntil: "domcontentloaded" })
goto ==
    /\ pc = "goto"
    /\ \/ /\ page' = [page EXCEPT !.doc = "first", !.dom = <<>>,
                                  !.renderPending = TRUE, !.body = 0]
          /\ pc' = "seed"
          /\ UNCHANGED <<err, loc>>
       \/ /\ Throw(StageError("navigation"))
          /\ UNCHANGED page
    /\ UNCHANGED <<reqVars, requests, health, arceus, optimized, tool, layout, retryVars, sessions, storage, published>>

\* a reload started without the payload having been written
seed_WithoutWrite ==
    /\ pc = "seed"
    /\ \/ /\ loc' = [loc EXCEPT !.delivered = layout,
                                !.reload = "started", !.wait = "waiting"]
          /\ pc' = "reloadAndWait"
          /\ UNCHANGED <<err, storage>>
       \/ /\ Throw(StageError("navigation"))
          /\ UNCHANGED storage
    /\ UNCHANGED <<reqVars, requests, health, arceus, optimized, tool, layout, retryVars, sessions, page, published>>

\* await page.evaluate(data => localStorage.setItem("resume", ...), resume.data)
\* followed by the start of both members of the Promise.all
seed ==
    /\ pc = "seed"
    /\ \/ /\ storage' = [present |-> TRUE, layout |-> layout]
          /\ loc' = [loc EXCEPT !.delivered = layout,
                                !.reload = "started", !.wait = "waiting"]
          /\ pc' = "reloadAndWait"
          /\ UNCHANGED err
       \/ /\ Throw(StageError("navigation"))
          /\ UNCHANGED storage
    /\ UNCHANGED <<reqVars, requests, health, arceus, optimized, tool, layout, retryVars, sessions, page, published>>

\* page.reload: the old document is replaced by a new one
reloadCommit ==
    /\ pc = "reloadAndWait"
    /\ loc.reload = "started"
    /\ page' = [page EXCEPT !.doc = "reloaded", !.dom = <<>>,
                            !.renderPending = TRUE, !.body = 0,
                            !.customCss = FALSE, !.printStyles = FALSE]
    /\ loc' = [loc EXCEPT !.reload = "committed"]
    /\ UNCHANGED <<reqVars, requests, health, arceus, optimized, tool, layout, retryVars, pc, err, sessions, storage, published>>

\* page.reload({ waitUntil: "load" }) resolves
reloadLoad ==
    /\ pc = "reloadAndWait"
    /\ loc.reload = "committed"
    /\ loc' = [loc EXCEPT !.reload = "loaded"]
    /\ UNCHANGED <<reqVars, requests, health, arceus, optimized, tool, layout, retryVars, pc, err, browserVars, published>>

\* page.reload rejects
reloadFail ==
    /\ pc = "reloadAndWait"
    /\ loc.reload \in {"started", "committed"}
    /\ Throw(StageError("navigation"))
    /\ UNCHANGED <<reqVars, requests, health, arceus, optimized, tool, layout, retryVars, browserVars, published>>

\* page.waitForSelector('[data-page="1"]') finds the marker in the document
\* that is current at that moment
waitFound ==
    /\ pc = "reloadAndWait"
    /\ loc.wait = "waiting"
    /\ 1 \in Range(VisiblePages(page))
    /\ loc' = [loc EXCEPT !.wait = "found", !.markerDoc = page.doc]
    /\ UNCHANGED <<reqVars, requests, health, arceus, optimized, tool, layout, retryVars, pc, err, browserVars, published>>

\* a marker wait whose timeout is swallowed: the attempt goes on to capture
waitTimeout_Ignored ==
    /\ pc = "reloadAndWait"
    /\ loc.wait = "waiting"
    /\ loc' = [loc EXCEPT !.wait = "found"]
    /\ UNCHANGED <<reqVars, requests, health, arceus, optimized, tool, layout, retryVars, pc, err, browserVars, published>>

\* page.waitForSelector rejects after the 15 s timeout
waitTimeout ==
    /\ pc = "reloadAndWait"
    /\ loc.wait = "waiting"
    /\ Throw(StageError("timeout"))
    /\ UNCHANGED <<reqVars, requests, health, arceus, optimized, tool, layout, retryVars, browserVars, published>>

\* a page loop that goes on to save and upload without merging the buffers
LoopOrMerge_SkipMerge(index, numberPages, buffers) ==
    IF index <= numberPages THEN "query" ELSE "save"

\* where the page loop of the continuous branch stands after `index`
LoopOrMerge(index, numberPages, buffers) ==
    IF index <= numberPages THEN "query"
    ELSE IF buffers = <<>> THEN "save" ELSE "load"

\* a formatted branch that injects the custom CSS whether visible or not
promiseAll_CssAlways ==
    /\ pc = "reloadAndWait"
    /\ loc.reload = "loaded"
    /\ loc.wait = "found"
    /\ loc' = [loc EXCEPT !.pagesBuffer = <<>>, !.index = 1]
    /\ pc' = IF format # "none"
             THEN "formatCss"
             ELSE LoopOrMerge(1, loc.numberPages, <<>>)
    /\ UNCHANGED <<reqVars, requests, health, arceus, optimized, tool, layout, retryVars, err, browserVars, published>>

\* Promise.all resolves; pagesBuffer = []; the branch is chosen
promiseAll ==
    /\ pc = "reloadAndWait"
    /\ loc.reload = "loaded"
    /\ loc.wait = "found"
    /\ loc' = [loc EXCEPT !.pagesBuffer = <<>>, !.index = 1]
    /\ pc' = IF format # "none"
             THEN IF cssVisible THEN "formatCss" ELSE "addStyleTag"
             ELSE LoopOrMerge(1, loc.numberPages, <<>>)
    /\ UNCHANGED <<reqVars, requests, health, arceus, optimized, tool, layout, retryVars, err, browserVars, published>>

\* formatted branch: custom CSS, when visible
formatCss ==
    /\ pc = "formatCss"
    /\ \/ /\ page' = [page EXCEPT !.customCss = TRUE]
          /\ pc' = "addStyleTag"
          /\ UNCHANGED <<err, loc>>
       \/ /\ Throw(StageError("capture"))
          /\ UNCHANGED page
    /\ UNCHANGED <<reqVars, requests, health, arceus, optimized, tool, layout, retryVars, sessions, storage, published>>

\* formatted branch: await page.addStyleTag({ content: ... })
addStyleTag ==
    /\ pc = "addStyleTag"
    /\ \/ /\ page' = [page EXCEPT !.printStyles = TRUE]
          /\ pc' = "formatPdf"
          /\ UNCHANGED <<err, loc>>
       \/ /\ Throw(StageError("capture"))
          /\ UNCHANGED page
    /\ UNCHANGED <<reqVars, requests, health, arceus, optimized, tool, layout, retryVars, sessions, storage, published>>

\* formatted branch: await page.pdf({ format, printBackground: true });
\* pagesBuffer.push(buffer)
formatPdf ==
    /\ pc = "formatPdf"
    /\ \/ /\ \E valid \in BOOLEAN :
                loc' = [loc EXCEPT
                          !.pagesBuffer = Append(loc.pagesBuffer,
                                Buffer(DocumentPages(VisiblePages(page)), valid)),
                          !.exports = loc.exports + 1,
                          !.element = 1]
          /\ pc' = "load"
          /\ UNCHANGED err
       \/ /\ Throw(StageError("capture"))
    /\ UNCHANGED <<reqVars, requests, health, arceus, optimized, tool, layout, retryVars, browserVars, published>>

\* a processPage that measures before it has replaced the body
query_SkipsIsolation ==
    /\ pc = "query"
    /\ \/ /\ loc' = [loc EXCEPT !.pageElement =
                        IF loc.index \in Range(VisiblePages(page))
                        THEN loc.index ELSE 0]
          /\ pc' = "measure"
          /\ UNCHANGED err
       \/ /\ Throw(StageError("capture"))
    /\ UNCHANGED <<reqVars, requests, health, arceus, optimized, tool, layout, retryVars, browserVars, published>>

\* continuous branch, processPage: const pageElement = await page.$(...);
\* 0 stands for null
query ==
    /\ pc = "query"
    /\ \/ /\ loc' = [loc EXCEPT !.pageElement =
                        IF loc.index \in Range(VisiblePages(page))
                        THEN loc.index ELSE 0]
          /\ pc' = "width"
          /\ UNCHANGED err
       \/ /\ Throw(StageError("capture"))
    /\ UNCHANGED <<reqVars, requests, health, arceus, optimized, tool, layout, retryVars, browserVars, published>>

\* processPage: (await (await pageElement?.getProperty("scrollWidth"))?.jsonValue()) ?? 0
\* nothing is asked of the browser when the element is null
width ==
    /\ pc = "width"
    /\ \/ /\ pc' = "isolate"
          /\ UNCHANGED <<err, loc>>
       \/ /\ loc.pageElement # 0
          /\ Throw(StageError("capture"))
    /\ UNCHANGED <<reqVars, requests, health, arceus, optimized, tool, layout, retryVars, browserVars, published>>

\* processPage: the body is replaced by a clone of the page element and its
\* former markup is returned; with a null element the page function throws
\* before it touches the body.  A rejected call may or may not have run.
isolate ==
    /\ pc = "isolate"
    /\ \/ /\ loc.pageElement # 0
          /\ loc' = [loc EXCEPT !.temporaryHtml = page.body]
          /\ page' = [page EXCEPT !.body = loc.pageElement]
          /\ pc' = IF cssVisible THEN "continuousCss" ELSE "measure"
          /\ UNCHANGED err
       \/ /\ loc.pageElement = 0
          /\ Throw(StageError("capture"))
          /\ UNCHANGED page
       \/ /\ loc.pageElement # 0
          /\ Throw(StageError("capture"))
          /\ page' \in {page, [page EXCEPT !.body = loc.pageElement]}
    /\ UNCHANGED <<reqVars, requests, health, arceus, optimized, tool, layout, retryVars, sessions, storage, published>>

\* processPage: custom CSS, when visible
continuousCss ==
    /\ pc = "continuousCss"
    /\ \/ /\ page' = [page EXCEPT !.customCss = TRUE]
          /\ pc' = "measure"
          /\ UNCHANGED <<err, loc>>
       \/ /\ Throw(StageError("capture"))
          /\ UNCHANGED page
    /\ UNCHANGED <<reqVars, requests, health, arceus, optimized, tool, layout, retryVars, sessions, storage, published>>

\* processPage: const bodyHeight = await page.evaluate(...)
measure ==
    /\ pc = "measure"
    /\ \/ /\ pc' = "continuousPdf"
          /\ UNCHANGED <<err, loc>>
       \/ Throw(StageError("capture"))
    /\ UNCHANGED <<reqVars, requests, health, arceus, optimized, tool, layout, retryVars, browserVars, published>>

\* processPage: await page.pdf({ width, height, printBackground: true });
\* pagesBuffer.push(buffer)
continuousPdf ==
    /\ pc = "continuousPdf"
    /\ \/ /\ \E valid \in BOOLEAN :
                loc' = [loc EXCEPT
                          !.pagesBuffer = Append(loc.pagesBuffer,
                                Buffer(DocumentPages(VisiblePages(page)), valid)),
                          !.exports = loc.exports + 1]
          /\ pc' = "restore"
          /\ UNCHANGED err
       \/ /\ Throw(StageError("capture"))
    /\ UNCHANGED <<reqVars, requests, health, arceus, optimized, tool, layout, retryVars, browserVars, published>>

\* processPage: document.body.innerHTML = temporaryHtml; then index++
restore ==
    /\ pc = "restore"
    /\ \/ /\ page' = [page EXCEPT !.body = loc.temporaryHtml]
          /\ loc' = [loc EXCEPT !.index = loc.index + 1, !.element = 1]
          /\ pc' = LoopOrMerge(loc.index + 1, loc.numberPages, loc.pagesBuffer)
          /\ UNCHANGED err
       \/ /\ Throw(StageError("capture"))
          /\ page' \in {page, [page EXCEPT !.body = loc.temporaryHtml]}
    /\ UNCHANGED <<reqVars, requests, health, arceus, optimized, tool, layout, retryVars, sessions, storage, published>>

\* one round of the merge loop: PDFDocument.load(element), copyPages of all
\* its page indices, addPage for each in order
load ==
    /\ pc = "load"
    /\ loc.element <= Len(loc.pagesBuffer)
    /\ \/ /\ loc.pagesBuffer[loc.element].valid
          /\ loc' = [loc EXCEPT !.pdf = CopyPages(loc.pdf, loc.pagesBuffer[loc.element].pages),
                                !.element = loc.element + 1]
          /\ pc' = IF loc.element + 1 <= Len(loc.pagesBuffer) THEN "load" ELSE "save"
          /\ UNCHANGED err
       \/ /\ ~loc.pagesBuffer[loc.element].valid
          /\ Throw(StageError("assembly"))
    /\ UNCHANGED <<reqVars, requests, health, arceus, optimized, tool, layout, retryVars, browserVars, published>>

\* const buffer = Buffer.from(await pdf.save())
save ==
    /\ pc = "save"
    /\ pc' = "uploadResume"
    /\ UNCHANGED <<reqVars, requests, health, arceus, optimized, tool, layout, retryVars, err, loc, browserVars, published>>

\* await this.storageService.uploadObject(resume.userId, "resumes", buffer, resume.title)
uploadResume ==
    /\ pc = "uploadResume"
    /\ \/ /\ published' = Append(published,
                [owner |-> resume.userId, category |-> "resumes",
                 pages |-> loc.pdf, name |-> resume.title])
          /\ loc' = [loc EXCEPT !.resumeUrl =
                        ObjectUrl(resume.userId, "resumes", resume.title),
                                !.uploads = loc.uploads + 1]
          /\ pc' = "close"
          /\ UNCHANGED err
       \/ /\ Throw(StageError("publish"))
          /\ UNCHANGED published
    /\ UNCHANGED <<reqVars, requests, health, arceus, optimized, tool, layout, retryVars, browserVars>>

\* await page.close()
close ==
    /\ pc = "close"
    /\ \/ /\ sessions' = [sessions EXCEPT !.current.tab = "closed",
                                          !.current.closes = @ + 1,
                                          !.openTabs = @ - 1]
          /\ pc' = "disconnect"
          /\ UNCHANGED <<err, loc>>
       \/ /\ Throw(StageError("teardown"))
          /\ UNCHANGED sessions
    /\ UNCHANGED <<reqVars, requests, health, arceus, optimized, tool, layout, retryVars, storage, page, published>>

\* await browser.disconnect(); return the URL
disconnect ==
    /\ pc = "disconnect"
    /\ \/ /\ sessions' = [sessions EXCEPT !.current.connected = FALSE,
                                          !.current.disconnects = @ + 1,
                                          !.openConnections = @ - 1]
          /\ pc' = "returned"
          /\ UNCHANGED <<err, loc>>
       \/ /\ Throw(StageError("teardown"))
          /\ UNCHANGED sessions
    /\ UNCHANGED <<reqVars, requests, health, arceus, optimized, tool, layout, retryVars, storage, page, published>>

\* catch (error) { this.logger.error(error); throw new
\* InternalServerErrorException(ErrorMessage.ResumePrinterError, error.message) }
catch ==
    /\ pc = "catch"
    /\ err' = ResumePrinterError(err)
    /\ pc' = "thrown"
    /\ UNCHANGED <<reqVars, requests, health, arceus, optimized, tool, layout, retryVars, loc, browserVars, published>>

\* ------------------------------------------------------------------------
\* generatePreview
\* ------------------------------------------------------------------------

\* await page.evaluateOnNewDocument(data => localStorage.setItem(...), resume.data)
evaluateOnNewDocument ==
    /\ pc = "evaluateOnNewDocument"
    /\ \/ /\ page' = [page EXCEPT !.hook = TRUE]
          /\ loc' = [loc EXCEPT !.delivered = layout]
          /\ pc' = "setViewport"
          /\ UNCHANGED err
       \/ /\ Throw(StageError("navigation"))
          /\ UNCHANGED page
    /\ UNCHANGED <<reqVars, requests, health, arceus, optimized, tool, layout, retryVars, sessions, storage, published>>

\* await page.setViewport({ width: 794, height: 1123 })
setViewport ==
    /\ pc = "setViewport"
    /\ \/ /\ pc' = "previewGoto"
          /\ UNCHANGED <<err, loc>>
       \/ Throw(StageError("navigation"))
    /\ UNCHANGED <<reqVars, requests, health, arceus, optimized, tool, layout, retryVars, browserVars, published>>

\* await page.goto(`${url}/artboard/preview`, { waitUntil: "networkidle0" });
\* the new document runs the registered script before its own
previewGoto ==
    /\ pc = "previewGoto"
    /\ \/ /\ page' = [page EXCEPT !.doc = "first", !.dom = <<>>,
                                  !.renderPending = TRUE, !.body = 0]
          /\ storage' = IF page.hook
                        THEN [present |-> TRUE, layout |-> loc.delivered]
                        ELSE storage
          /\ pc' = "screenshot"
          /\ UNCHANGED <<err, loc>>
       \/ /\ Throw(StageError("navigation"))
          /\ UNCHANGED <<page, storage>>
    /\ UNCHANGED <<reqVars, requests, health, arceus, optimized, tool, layout, retryVars, sessions, published>>

\* const uint8array = await page.screenshot({ quality: 80, type: "jpeg" })
screenshot ==
    /\ pc = "screenshot"
    /\ \/ /\ loc' = [loc EXCEPT
                        !.pagesBuffer = <<Buffer(DocumentPages(VisiblePages(page)), TRUE)>>,
                        !.exports = loc.exports + 1]
          /\ pc' = "uploadPreview"
          /\ UNCHANGED err
       \/ /\ Throw(StageError("capture"))
    /\ UNCHANGED <<reqVars, requests, health, arceus, optimized, tool, layout, retryVars, browserVars, published>>

\* a preview stored the way a resume is: other category, named by the title
uploadPreview_AsResume ==
    /\ pc = "uploadPreview"
    /\ \/ /\ published' = Append(published,
                [owner |-> resume.userId, category |-> "resumes",
                 pages |-> loc.pagesBuffer[1].pages, name |-> resume.title])
          /\ loc' = [loc EXCEPT !.resumeUrl =
                        ObjectUrl(resume.userId, "resumes", resume.title),
                                !.uploads = loc.uploads + 1]
          /\ pc' = "close"
          /\ UNCHANGED err
       \/ /\ Throw(StageError("publish"))
          /\ UNCHANGED published
    /\ UNCHANGED <<reqVars, requests, health, arceus, optimized, tool, layout, retryVars, browserVars>>

\* await this.storageService.uploadObject(resume.userId, "previews", buffer, resume.id)
uploadPreview ==
    /\ pc = "uploadPreview"
    /\ \/ /\ published' = Append(published,
                [owner |-> resume.userId, category |-> "previews",
                 pages |-> loc.pagesBuffer[1].pages, name |-> resume.id])
          /\ loc' = [loc EXCEPT !.resumeUrl =
                        ObjectUrl(resume.userId, "previews", resume.id),
                                !.uploads = loc.uploads + 1]
          /\ pc' = "close"
          /\ UNCHANGED err
       \/ /\ Throw(StageError("publish"))
          /\ UNCHANGED published
    /\ UNCHANGED <<reqVars, requests, health, arceus, optimized, tool, layout, retryVars, browserVars>>

\* ------------------------------------------------------------------------
\* getVersion
\* ------------------------------------------------------------------------

mainVars == <<reqVars, requests, layout, retryVars, pc, err, loc, storage, page, published>>

\* a health check calls getVersion()
getVersion ==
    /\ health.pc = "idle"
    /\ Len(health.calls) < MaxCalls
    /\ health' = [health EXCEPT !.pc = "getBrowser"]
    /\ UNCHANGED <<mainVars, sessions, arceus, optimized, tool>>

\* const browser = await this.getBrowser(): one connect, or the call ends
\* with InvalidBrowserConnection
versionGetBrowser ==
    /\ health.pc = "getBrowser"
    /\ \/ /\ health' = [health EXCEPT
                            !.pc = "version",
                            !.browser = [NoSession EXCEPT
                                            !.id = NextSessionId(sessions),
                                            !.connected = TRUE]]
          /\ sessions' = [sessions EXCEPT !.openConnections = @ + 1,
                                          !.connections = @ + 1]
       \/ /\ health' = CallOver(health,
                            InvalidBrowserConnection(StageError("connect")).message)
          /\ UNCHANGED sessions
    /\ UNCHANGED <<mainVars, arceus, optimized, tool>>

\* const version = await browser.version(): a rejection leaves getVersion
version ==
    /\ health.pc = "version"
    /\ \/ health' = [health EXCEPT !.pc = "disconnect"]
       \/ health' = CallOver(health, StageError("version").message)
    /\ UNCHANGED <<mainVars, sessions, arceus, optimized, tool>>

\* await browser.disconnect(); return version
versionDisconnect ==
    /\ health.pc = "disconnect"
    /\ LET called == [health EXCEPT !.disconnectCalls = @ + 1]
       IN  \/ /\ health' = CallOver([called EXCEPT !.browser.connected = FALSE,
                                                    !.browser.disconnects = @ + 1],
                                     "ok")
              /\ sessions' = [sessions EXCEPT !.openConnections = @ - 1]
           \/ /\ health' = CallOver(called, StageError("teardown").message)
              /\ UNCHANGED sessions
    /\ UNCHANGED <<mainVars, arceus, optimized, tool>>

\* ------------------------------------------------------------------------
\* Specification
\* ------------------------------------------------------------------------

Next ==
    \/ Retry \/ OnError \/ RetryTimeout \/ Resolve
    \/ getBrowser \/ newPage \/ resolveUrl \/ setRequestInterception
    \/ Render
    \/ mergeLayout \/ goto \/ seed
    \/ reloadCommit \/ reloadLoad \/ reloadFail \/ waitFound \/ waitTimeout
    \/ promiseAll
    \/ formatCss \/ addStyleTag \/ formatPdf
    \/ query \/ width \/ isolate \/ continuousCss \/ measure \/ continuousPdf
    \/ restore
    \/ load \/ save \/ uploadResume \/ close \/ disconnect \/ catch
    \/ evaluateOnNewDocument \/ setViewport \/ previewGoto \/ screenshot
    \/ uploadPreview

Spec == Init /\ [][Next]_vars

\* one invocation of generateResume or generatePreview together with the
\* network traffic of its tab, for the origins a deployment may configure
InitAttempt ==
    /\ kind \in {"print", "preview"}
    /\ format \in {"none", "A4"}
    /\ kind = "preview" => format = "none"
    /\ config \in UrlConfigs
    /\ cssVisible \in BOOLEAN
    /\ layout0 = LayoutOf(1)
    /\ layout = layout0
    /\ attempt = 1
    /\ mainErr = NoErrors
    /\ logs = <<>>
    /\ result = Pending
    /\ pc = "getBrowser"
    /\ err = NoError
    /\ loc = LocInit
    /\ sessions = NoSessions
    /\ storage = NoData
    /\ page = NewTab
    /\ published = <<>>
    /\ requests = <<>>
    /\ health = NoCalls
    /\ arceus = NoHeader
    /\ optimized = NoKeywords
    /\ tool = NoRun

NextAttempt ==
    \/ getBrowser \/ newPage \/ resolveUrl \/ setRequestInterception
    \/ request \/ onRequest
    \/ Render
    \/ mergeLayout \/ goto \/ seed
    \/ reloadCommit \/ reloadLoad \/ reloadFail \/ waitFound \/ waitTimeout
    \/ promiseAll
    \/ formatCss \/ addStyleTag \/ formatPdf
    \/ query \/ width \/ isolate \/ continuousCss \/ measure \/ continuousPdf
    \/ restore
    \/ load \/ save \/ uploadResume \/ close \/ disconnect \/ catch
    \/ evaluateOnNewDocument \/ setViewport \/ previewGoto \/ screenshot
    \/ uploadPreview

SpecAttempt == InitAttempt /\ [][NextAttempt]_vars

\* a request of one logical page while other requests use the same browser
InitShared ==
    /\ Init
    /\ format \in {"none", "A4"}
    /\ layout0 = LayoutOf(1)

NextShared == Next \/ concurrentRequest

SpecShared == InitShared /\ [][NextShared]_vars

\* the layout merge of generateResume and the delivery of its result, for
\* every layout of up to MaxPages pages
InitMerge ==
    /\ kind = "print"
    /\ format \in {"none", "A4"}
    /\ config = [publicUrl |-> <<"https://", "example.com">>,
                 storageUrl |-> <<"https://", "example.com", "/storage">>]
    /\ cssVisible = FALSE
    /\ layout0 \in AnyLayouts
    /\ layout = layout0
    /\ attempt = 1
    /\ mainErr = NoErrors
    /\ logs = <<>>
    /\ result = Pending
    /\ pc = "mergeLayout"
    /\ err = NoError
    /\ loc = [LocInit EXCEPT !.url = ResolveUrl(config)]
    /\ sessions = [NoSessions EXCEPT
                      !.current = [NoSession EXCEPT !.id = 1, !.connected = TRUE,
                                                    !.tab = "open", !.opens = 1],
                      !.openConnections = 1, !.openTabs = 1,
                      !.connections = 1, !.connectCalls = 1]
    /\ storage = NoData
    /\ page = NewTab
    /\ published = <<>>
    /\ requests = <<>>
    /\ health = NoCalls
    /\ arceus = NoHeader
    /\ optimized = NoKeywords
    /\ tool = NoRun

NextMerge == mergeLayout \/ goto \/ seed

SpecMerge == InitMerge /\ [][NextMerge]_vars

\* the layout merge over the attempts of one printResume call: an attempt
\* that fails is invoked again on the same resume object
NextRemerge ==
    \/ mergeLayout \/ goto \/ seed
    \/ catch \/ OnError \/ RetryTimeout
    \/ getBrowser \/ newPage \/ resolveUrl

SpecRemerge == InitMerge /\ [][NextRemerge]_vars

\* a series of health checks on the remote browser
InitVersion ==
    /\ Init
    /\ kind = "print"
    /\ format = "none"
    /\ config = [publicUrl |-> <<"https://", "example.com">>,
                 storageUrl |-> <<"https://", "example.com", "/storage">>]
    /\ ~cssVisible
    /\ layout0 = LayoutOf(1)

NextVersion == getVersion \/ versionGetBrowser \/ version \/ versionDisconnect

SpecVersion == InitVersion /\ [][NextVersion]_vars

\* the variables of PrinterService
serviceVars == <<mainVars, sessions, health>>

\* Header renders the three columns of the contact row from resume.basics
Header ==
    /\ ~arceus.rendered
    /\ arceus' = [arceus EXCEPT !.rendered = TRUE,
                                !.left = LeftColumn(arceus.basics),
                                !.center = CenterColumn(arceus.basics),
                                !.right = RightColumn(arceus.basics)]
    /\ UNCHANGED <<serviceVars, optimized, tool>>

\* the artboard store receives another resume: the template renders anew
setResume ==
    /\ arceus.rendered
    /\ \E basics \in AnyBasics :
          arceus' = [NoHeader EXCEPT !.basics = basics]
    /\ UNCHANGED <<serviceVars, optimized, tool>>

\* a PrinterService that serves no request
ServiceIdle ==
    /\ kind = "print"
    /\ format = "none"
    /\ config = [publicUrl |-> <<"https://", "example.com">>,
                 storageUrl |-> <<"https://", "example.com", "/storage">>]
    /\ cssVisible = FALSE
    /\ layout0 = LayoutOf(1)
    /\ layout = layout0
    /\ attempt = 0
    /\ mainErr = NoErrors
    /\ logs = <<>>
    /\ result = Pending
    /\ pc = "start"
    /\ err = NoError
    /\ loc = LocInit
    /\ sessions = NoSessions
    /\ storage = NoData
    /\ page = NewTab
    /\ published = <<>>
    /\ requests = <<>>
    /\ health = NoCalls

InitHeader ==
    /\ ServiceIdle
    /\ arceus \in {[NoHeader EXCEPT !.basics = basics] : basics \in AnyBasics}
    /\ optimized = NoKeywords
    /\ tool = NoRun

NextHeader == Header \/ setResume

SpecHeader == InitHeader /\ [][NextHeader]_vars

\* the container takes another width: the ResizeObserver calls computeLayout
resize ==
    /\ \E containerWidth \in 0..MaxWidth :
          /\ containerWidth # optimized.width
          /\ optimized' = computeLayout([optimized EXCEPT !.width = containerWidth])
    /\ UNCHANGED <<serviceVars, arceus, tool>>

\* document.fonts.ready.then(computeLayout)
fontsReady ==
    /\ ~optimized.fonts
    /\ optimized' = computeLayout([optimized EXCEPT !.fonts = TRUE])
    /\ UNCHANGED <<serviceVars, arceus, tool>>

\* a mounted component whose layout effect has run: the observer and the
\* font promise are registered, no layout has been computed
InitKeywords ==
    /\ ServiceIdle
    /\ arceus = NoHeader
    /\ \E keywords \in AnyKeywords, containerWidth \in 0..MaxWidth :
          optimized = [NoKeywords EXCEPT !.passed = keywords,
                                         !.keywords = keywords,
                                         !.width = containerWidth]
    /\ tool = NoRun

NextKeywords == resize \/ fontsReady

SpecKeywords == InitKeywords /\ [][NextKeywords]_vars

\* main up to the try block: the sample data is read and parsed
toolMain ==
    /\ tool.pc = "idle"
    /\ tool' = CASE tool.sample = "missing" -> [tool EXCEPT !.pc = "done", !.exit = 1]
                 [] tool.sample = "invalid" -> [tool EXCEPT !.pc = "done", !.rejected = TRUE]
                 [] OTHER -> [tool EXCEPT !.pc = "launch"]
    /\ UNCHANGED <<serviceVars, arceus, optimized>>

\* browser = await puppeteer.launch({ executablePath: getExecutablePath(), ... })
toolLaunch ==
    /\ tool.pc = "launch"
    /\ IF getExecutablePath(tool.existing) = NoPath
       THEN tool' = ToolThrow(tool, "Could not find Google Chrome installation")
       ELSE \/ tool' = [tool EXCEPT !.browser = "open", !.launches = @ + 1,
                                    !.pc = "newPage"]
            \/ tool' = ToolThrow(tool, "launch")
    /\ UNCHANGED <<serviceVars, arceus, optimized>>

\* a step of the try block that either completes or throws
ToolAwait(at, next, e) ==
    /\ tool.pc = at
    /\ \/ tool' = [tool EXCEPT !.pc = next]
       \/ tool' = ToolThrow(tool, e)
    /\ UNCHANGED <<serviceVars, arceus, optimized>>

\* const page = await browser.newPage()
toolNewPage == ToolAwait("newPage", "goto", "newPage")

\* await page.goto(artboardUrl, { waitUntil: 'networkidle0' })
toolGoto == ToolAwait("goto", "evaluate", "navigation")

\* await page.evaluate((data) => localStorage.setItem('resume', ...), sampleData)
toolEvaluate == ToolAwait("evaluate", "reload", "injection")

\* await page.reload({ waitUntil: 'networkidle0' }) and the 2 s timer
toolReload == ToolAwait("reload", "mkdir", "reload")

\* if (!fs.existsSync(dir)) fs.mkdirSync(dir, { recursive: true })
toolMkdir ==
    /\ tool.pc = "mkdir"
    /\ \/ tool' = [tool EXCEPT !.dir = TRUE, !.pc = "setViewport"]
       \/ /\ ~tool.dir
          /\ tool' = ToolThrow(tool, "mkdir")
    /\ UNCHANGED <<serviceVars, arceus, optimized>>

\* await page.setViewport({ width: 800, height: 1131 })
toolSetViewport == ToolAwait("setViewport", "screenshot", "viewport")

\* const buffer = await page.screenshot({ type: 'jpeg', quality: 90, fullPage: true })
toolScreenshot == ToolAwait("screenshot", "writeFile", "screenshot")

\* fs.writeFileSync(outputPath, buffer); the try block is left
toolWriteFile ==
    /\ tool.pc = "writeFile"
    /\ \/ tool' = [tool EXCEPT !.written = TRUE, !.pc = "finally"]
       \/ tool' = ToolThrow(tool, "write")
    /\ UNCHANGED <<serviceVars, arceus, optimized>>

\* a catch clause after which the finally clause is not run
toolCatch_SkipsFinally ==
    /\ tool.pc = "catch"
    /\ tool' = [tool EXCEPT !.logged = Append(@, tool.error), !.pc = "done"]
    /\ UNCHANGED <<serviceVars, arceus, optimized>>

\* catch (error) { console.error('Error generating preview:', error) }
toolCatch ==
    /\ tool.pc = "catch"
    /\ tool' = [tool EXCEPT !.logged = Append(@, tool.error), !.pc = "finally"]
    /\ UNCHANGED <<serviceVars, arceus, optimized>>

\* finally { if (browser) await browser.close() }: a close that rejects
\* rejects main
toolFinally ==
    /\ tool.pc = "finally"
    /\ IF tool.browser # "undefined"
       THEN \/ tool' = [tool EXCEPT !.browser = "closed", !.closeCalls = @ + 1,
                                    !.pc = "done"]
            \/ tool' = [tool EXCEPT !.closeCalls = @ + 1, !.rejected = TRUE,
                                    !.pc = "done"]
       ELSE tool' = [tool EXCEPT !.pc = "done"]
    /\ UNCHANGED <<serviceVars, arceus, optimized>>

InitTool ==
    /\ ServiceIdle
    /\ arceus = NoHeader
    /\ optimized = NoKeywords
    /\ tool \in AnyRuns

NextTool ==
    \/ toolMain \/ toolLaunch \/ toolNewPage \/ toolGoto \/ toolEvaluate
    \/ toolReload \/ toolMkdir \/ toolSetViewport \/ toolScreenshot
    \/ toolWriteFile \/ toolCatch \/ toolFinally

SpecTool == InitTool /\ [][NextTool]_vars

\* the event loop of the service runs the listener of every event it holds
SpecAttemptFair == SpecAttempt /\ WF_vars(onRequest)

\* ------------------------------------------------------------------------
\* Properties
\* ------------------------------------------------------------------------

\* the attempt has left the generation function: it returned or it threw
AttemptOver == pc \in {"thrown", "returned"}

\* the merge loop of generateResume has consumed every buffer
Assembled ==
    kind = "print" /\ pc \in {"save", "uploadResume", "close", "disconnect", "returned"}

\* the payload has been handed to the renderer by generateResume
Delivered ==
    /\ kind = "print"
    /\ pc \in {"reloadAndWait", "formatCss", "addStyleTag", "formatPdf", "query",
               "width", "isolate", "continuousCss", "measure", "continuousPdf",
               "restore", "load", "save", "uploadResume", "close", "disconnect",
               "returned"}

IsAscending(pages) ==
    \A i \in 1..(Len(pages) - 1) : pages[i] < pages[i + 1]

\* C1 (session cleanup): whenever an attempt that acquired a session is over,
\* by return or by throw, that session's tab was closed exactly once and its
\* connection disconnected exactly once, and no tab or connection is open.
C1_SessionCleanup ==
    (AttemptOver /\ sessions.current.id # 0) =>
        /\ sessions.current.closes = 1
        /\ sessions.current.disconnects = 1
        /\ sessions.openTabs = 0
        /\ sessions.openConnections = 0

\* C2 as stated: a request that failed on every attempt has invoked the
\* generation function exactly 3 times.
C2_ThreeAttempts ==
    result.status = "error" => attempt = 3

\* C2 (retry bound), amended: a request that failed on every attempt has
\* invoked the generation function exactly 4 times (the first invocation and
\* 3 retries), and no request ever invokes it more often.
C2_RetryBound ==
    /\ attempt <= 4
    /\ result.status = "error" => attempt = 4

C2_Witness ==
    result.status = "error" /\ pc = "done"

\* C3: a request that succeeds after k failed attempts returns the URL of the
\* object its last attempt uploaded, has logged exactly k retries, the i-th
\* of them carrying the resume id and the attempt number i, and is finished.
C3_RetryLog ==
    result.status = "ok" =>
        /\ pc = "done"
        /\ attempt - 1 \in 0..retries
        /\ Len(logs) = attempt - 1
        /\ \A i \in 1..Len(logs) :
              /\ logs[i].id = "resume-id"
              /\ logs[i].attempt = i
              /\ logs[i].kind = kind
        /\ published # <<>>
        /\ result.url.owner = published[Len(published)].owner
        /\ result.url.category = published[Len(published)].category
        /\ result.url.name = published[Len(published)].name

C3_Witness ==
    result.status = "ok" /\ attempt = 2 /\ Len(logs) = 1

\* the errors the stages themselves raise
OriginalErrors ==
    {StageError(s) : s \in Stages \ {"connect"}}
        \cup {InvalidBrowserConnection(StageError("connect"))}

\* C4 as stated: the error a failed request delivers is the original error of
\* the failing stage, neither replaced nor wrapped.
C4_OriginalError ==
    result.status = "error" => result.error \in OriginalErrors

\* C4, amended: the retry orchestrator delivers an error as the generation
\* function threw it.  For printPreview that is the original error of a
\* stage, the one whose message was thrown most often.  For printResume it is
\* the error of the final attempt, which generateResume has replaced by a
\* ResumePrinterError exception that keeps only the stage error's message.
C4_ThrownError ==
    result.status = "error" =>
        /\ kind = "preview" =>
              /\ result.error \in OriginalErrors
              /\ mainErr.counts[result.error.message] >= 1
              /\ \A m \in Messages : mainErr.counts[m] <= mainErr.counts[result.error.message]
        /\ kind = "print" =>
              /\ result.error = err
              /\ result.error.name = "InternalServerErrorException"
              /\ result.error.message = "ResumePrinterError"
              /\ \E e \in OriginalErrors : result.error.description = e.message

C4_Witness ==
    /\ result.status = "error"
    /\ kind = "print"
    /\ result.error.description = "timeout"

\* C5: a failed request delivers an exception that carries a stable error
\* code and the message of the underlying stage error.
C5_UserFacingFailure ==
    result.status = "error" =>
        /\ result.error.name = "InternalServerErrorException"
        /\ result.error.message \in ErrorCodes
        /\ \/ result.error.description \in Stages
           \/ \E e \in OriginalErrors : result.error.description = e.message

\* C6 as stated: without a format, a request with N logical pages is captured
\* as N single-page buffers and assembled into N pages in ascending order.
C6_NBuffers ==
    (Assembled /\ format = "none") =>
        /\ Len(loc.pagesBuffer) = Len(layout0)
        /\ \A i \in 1..Len(loc.pagesBuffer) : Len(loc.pagesBuffer[i].pages) = 1
        /\ loc.pdf = PageIndices(Len(layout0))

\* C6 (page count), amended: without a format, the N logical pages are merged
\* into one before rendering; continuous capture yields exactly one
\* single-page buffer and the assembled document has exactly one page.
C6_OneBuffer ==
    (Assembled /\ format = "none") =>
        /\ loc.numberPages = 1
        /\ Len(loc.pagesBuffer) = 1
        /\ loc.pagesBuffer[1].pages = <<1>>
        /\ loc.pdf = <<1>>

C6_Witness ==
    Assembled /\ format = "none" /\ Len(layout0) = 2

\* C7: a successful attempt of generateResume has handed exactly one buffer
\* to the assembler: without a format the one page of the merged layout, with
\* a format the product of a single export holding the N physical pages.
C7_OneBuffer ==
    (kind = "print" /\ pc = "returned") =>
        /\ Len(loc.pagesBuffer) = 1
        /\ loc.exports = 1
        /\ format = "none" =>
              /\ Len(loc.delivered) = 1
              /\ loc.pagesBuffer[1].pages = <<1>>
        /\ format # "none" =>
              loc.pagesBuffer[1].pages = PageIndices(Len(layout0))

\* C8 as stated: with a format, the layout delivered to the renderer is the
\* single page that merges all logical pages, and one page is announced.
C8_FormatMerge ==
    (Delivered /\ format # "none") =>
        /\ Len(loc.delivered) = 1
        /\ loc.numberPages = 1
        /\ layout0 = <<PageAB, PageCD>> =>
              loc.delivered[1][1] = <<"A", "B", "C", "D">>

\* C8 (page merge), amended: the merge belongs to the branch without a
\* format.  There the renderer receives one logical page, for the pages
\* [A,B] and [C,D] the page [A,B,C,D] (column-wise, not interleaved), and one
\* page is announced; with a format the layout is delivered as it came.
C8_ContinuousMerge ==
    Delivered =>
        /\ format = "none" =>
              /\ Len(loc.delivered) = 1
              /\ loc.numberPages = 1
              /\ layout0 = <<PageAB, PageCD>> =>
                    loc.delivered = << << <<"A", "B", "C", "D">>, <<"E", "F">> >> >>
        /\ format # "none" =>
              /\ loc.delivered = layout0
              /\ loc.numberPages = Len(layout0)

C8_Witness ==
    Delivered /\ format = "none" /\ layout0 = <<PageAB, PageCD>>

\* C9 (order preservation): the i-th buffer of the continuous branch shows
\* logical page i; the assembler holds the pages of the buffers consumed so
\* far in their order; and every document handed to the publisher by
\* generateResume shows its pages in strictly increasing page order, in a
\* first attempt and in a retry.
C9_OrderPreserved ==
    kind = "print" =>
        /\ format = "none" =>
              \A i \in 1..Len(loc.pagesBuffer) : loc.pagesBuffer[i].pages = <<i>>
        /\ \A i \in 1..Len(loc.pagesBuffer) : IsAscending(loc.pagesBuffer[i].pages)
        /\ pc = "load" =>
              loc.pdf = ConcatPages(SubSeq(loc.pagesBuffer, 1, loc.element - 1))
        /\ Assembled => loc.pdf = ConcatPages(loc.pagesBuffer)
        /\ IsAscending(loc.pdf)
        /\ \A i \in 1..Len(published) : IsAscending(published[i].pages)

C9_Witness ==
    /\ kind = "print"
    /\ attempt = 2
    /\ pc = "returned"
    /\ loc.pdf = <<1, 2>>

\* C10 (assembler): once the merge loop is done the document has as many
\* pages as the buffers together, and every buffer was loadable: a buffer
\* that cannot be loaded is never skipped.
C10_PageCount ==
    /\ (kind = "print" /\ pc = "load") =>
          /\ Len(loc.pdf) = SumPages(SubSeq(loc.pagesBuffer, 1, loc.element - 1))
          /\ \A i \in 1..(loc.element - 1) : loc.pagesBuffer[i].valid
    /\ Assembled =>
          /\ Len(loc.pdf) = SumPages(loc.pagesBuffer)
          /\ \A i \in 1..Len(loc.pagesBuffer) : loc.pagesBuffer[i].valid

C10_Witness ==
    Assembled /\ Len(loc.pagesBuffer) = 1 /\ Len(loc.pdf) = 2

\* C11 (restoration on failure): when an attempt of generateResume has
\* failed, the body of its tab is the document's own markup again: every
\* isolation of a page has been undone before the failure leaves processPage.
C11_BodyRestored ==
    (kind = "print" /\ pc \in {"catch", "thrown"} /\ sessions.current.tab = "open") =>
        page.body = 0

\* tokens that end the host of a URL: a port or the beginning of a path
AfterHost == {":3000", ":3001", "/", "/api", "/storage", "/x", "/artboard/preview"}

\* the URL's host is localhost, not merely a name that contains that text
HostIsLocalhost(url) ==
    /\ Len(url) >= 2
    /\ url[1] \in {"http://", "https://"}
    /\ url[2] = "localhost"
    /\ Len(url) >= 3 => url[3] \in AfterHost

\* the URL with its host replaced by the container alias, all else kept
WithAliasHost(url) == [url EXCEPT ![2] = "host.docker.internal"]

\* C12 (RenderTarget resolution): the navigation target is the public origin
\* with its host replaced by the container alias and its port kept when the
\* public origin is loopback, and the public origin unchanged otherwise: a
\* public origin that is not loopback is never changed.
C12_RenderTarget ==
    (AttemptRunning /\ pc # "resolveUrl") =>
        loc.url = IF HostIsLocalhost(config.publicUrl)
                  THEN WithAliasHost(config.publicUrl)
                  ELSE config.publicUrl

\* how often each request was continued matches the state of its event
ContinueCounts ==
    \A i \in 1..Len(requests) :
        /\ requests[i].continues <= 1
        /\ requests[i].intercepted <=> requests[i].event \in {"pending", "handled"}
        /\ requests[i].event = "handled" <=> requests[i].continues = 1
        /\ requests[i].event = "pending" => page.onRequest

\* the i-th request of the tab was paused for the listener
Intercepted(i) ==
    IF i <= Len(requests) THEN requests[i].intercepted ELSE FALSE

\* the listener has continued the i-th request, once
ContinuedOnce(i) ==
    IF i <= Len(requests)
    THEN requests[i].event = "handled" /\ requests[i].continues = 1
    ELSE FALSE

\* C13 (exactly one continue): every request that was intercepted is
\* continued by the listener, and no request is ever continued twice or
\* continued without having been intercepted, however the request events
\* interleave with the steps of the attempt.
C13_ContinuedOnce ==
    /\ []ContinueCounts
    /\ \A i \in 1..MaxRequests :
          Intercepted(i) ~> ContinuedOnce(i)

C13_Witness ==
    /\ Len(requests) = 2
    /\ requests[1].event = "handled"
    /\ requests[2].event = "handled"
    /\ pc = "returned"

\* C14 (interception rewrite): a request whose URL starts with the storage
\* URL is continued with a URL that differs from its own at most in the
\* host, a localhost host being replaced by the container alias while port,
\* path and query stay as they were; every other request is continued with
\* its URL as it was.
C14_RewriteHostOnly ==
    \A i \in 1..Len(requests) :
        requests[i].event = "handled" =>
            requests[i].continuedUrl =
                IF StartsWith(requests[i].url, config.storageUrl)
                      /\ HostIsLocalhost(requests[i].url)
                THEN WithAliasHost(requests[i].url)
                ELSE requests[i].url

\* the loopback pattern matches PUBLIC_URL or STORAGE_URL
SomeOriginLoopback == IsLoopback(config.publicUrl) \/ IsLoopback(config.storageUrl)

\* C15 (interception only for loopback): a tab has interception enabled or a
\* request listener registered only if the loopback pattern matched one of
\* the two origins; if it matched neither, the tab never has either, and
\* every request it issues goes out unpaused and is never continued.
C15_InterceptionOnlyForLoopback ==
    /\ (page.interception \/ page.onRequest) => SomeOriginLoopback
    /\ (\E i \in 1..Len(requests) : requests[i].intercepted) => SomeOriginLoopback
    /\ ~SomeOriginLoopback =>
          /\ ~page.interception
          /\ ~page.onRequest
          /\ pc # "setRequestInterception"
          /\ \A i \in 1..Len(requests) :
                /\ requests[i].event = "none"
                /\ requests[i].continues = 0

C15_Witness ==
    /\ ~SomeOriginLoopback
    /\ Len(requests) = 2
    /\ pc = "returned"

\* C16 (sole retry authority): a step that raises an error ends the attempt:
\* control goes to the catch clause or out of the generation function, from
\* there only to the retry orchestrator, and no stage runs again before the
\* orchestrator starts the next attempt.  That attempt begins at session
\* acquisition without a session, at page 1 with no buffer and an empty
\* document, and a document handed to the publisher consists of the buffers
\* its own attempt exported.
C16_SoleRetryAuthority ==
    [][ /\ (err' # err /\ err' # NoError) => pc' \in {"catch", "thrown"}
        /\ (pc \notin {"catch", "thrown"} /\ pc' \in {"catch", "thrown"}) =>
              err' # NoError
        /\ pc = "catch" => pc' = "thrown"
        /\ pc = "thrown" => pc' \in {"backoff", "done"}
        /\ pc = "backoff" =>
              /\ pc' = "getBrowser"
              /\ attempt' = attempt + 1
        /\ pc' = "getBrowser" =>
              /\ sessions'.current = NoSession
              /\ loc'.pagesBuffer = <<>>
              /\ loc'.pdf = <<>>
              /\ loc'.index = 0
              /\ loc'.exports = 0
        /\ (published' # published /\ kind = "print") =>
              /\ Len(loc.pagesBuffer) = loc.exports
              /\ published'[Len(published')].pages = ConcatPages(loc.pagesBuffer)
      ]_vars

C16_Witness ==
    /\ kind = "print"
    /\ attempt = 2
    /\ mainErr.error.description = "assembly"
    /\ pc = "close"
    /\ Len(published) = 1

\* C17 (one session per attempt): the request has called connect once per
\* attempt it has started, an attempt that works on a tab has opened exactly
\* one, and the session an attempt works on is neither the session of an
\* earlier attempt of the request nor the session of another request.
C17_OwnSession ==
    /\ sessions.connectCalls =
          IF pc = "start" THEN 0
          ELSE IF pc = "getBrowser" THEN attempt - 1 ELSE attempt
    /\ sessions.current.opens <= 1
    /\ (AttemptRunning \/ pc = "returned") =>
          /\ sessions.current.id # 0
          /\ sessions.current.opens = 1
    /\ sessions.current.id # 0 =>
          /\ sessions.current.id \notin sessions.earlier
          /\ sessions.current.id \notin sessions.others
    /\ sessions.earlier \cap sessions.others = {}

C17_Witness ==
    /\ attempt = 2
    /\ sessions.earlier # {}
    /\ sessions.others # {}
    /\ pc = "returned"

\* C18 (connect once): a call of getBrowser calls connect exactly once.  It
\* either returns the new connection, or it fails at once with the
\* InvalidBrowserConnection exception whose description is the message of
\* the transport error, without a connection and without a second try.
C18_ConnectOnce ==
    [][ pc = "getBrowser" =>
          /\ sessions'.connectCalls = sessions.connectCalls + 1
          /\ \/ /\ pc' = "newPage"
                /\ sessions'.current.id # 0
                /\ sessions'.current.connected
                /\ sessions'.connections = sessions.connections + 1
                /\ err' = err
             \/ /\ pc' \in {"catch", "thrown"}
                /\ err'.name = "InternalServerErrorException"
                /\ err'.message = "InvalidBrowserConnection"
                /\ err'.description = StageError("connect").message
                /\ sessions'.current = NoSession
                /\ sessions'.connections = sessions.connections
      ]_vars

C18_Witness ==
    /\ pc = "thrown"
    /\ kind = "preview"
    /\ err.message = "InvalidBrowserConnection"
    /\ err.description = "connect"
    /\ sessions.connectCalls = 2

\* messages of the errors raised before the publisher is reached
BeforePublish ==
    {"InvalidBrowserConnection", "navigation", "timeout", "capture", "assembly"}

\* C19 (no partial success): generateResume hands a document to the
\* publisher only when the merge loop has consumed every buffer it captured,
\* all of them loadable, and the document holds their pages in order; an
\* attempt that fails at connect, navigation, capture or assembly has
\* published nothing, and a failed request returns no URL.
C19_NoPartialSuccess ==
    [][ /\ (published' # published /\ kind = "print") =>
              /\ pc = "uploadResume"
              /\ loc.pagesBuffer # <<>>
              /\ loc.element = Len(loc.pagesBuffer) + 1
              /\ \A i \in 1..Len(loc.pagesBuffer) : loc.pagesBuffer[i].valid
              /\ published' = Append(published, published'[Len(published')])
              /\ published'[Len(published')].pages = ConcatPages(loc.pagesBuffer)
        /\ (pc \notin {"catch", "thrown"} /\ pc' \in {"catch", "thrown"}
                /\ err'.message \in BeforePublish) =>
              /\ loc.resumeUrl = NoUrl
              /\ published' = published
        /\ loc'.resumeUrl # NoUrl => pc' \in {"close", "disconnect", "returned", "done"}
        /\ result'.status = "error" => result'.url = NoUrl
      ]_vars

C19_Witness ==
    /\ kind = "print"
    /\ attempt = 3
    /\ pc = "close"
    /\ Len(published) = 1
    /\ published[1].pages = <<1, 2>>

\* C20 (readiness timeout): when the wait for the first-page marker times
\* out, the attempt of generateResume ends there: it has captured, assembled
\* and published nothing, and nothing is ever captured unless the marker was
\* seen.  The timeout goes through the catch clause to the retry
\* orchestrator, which schedules a new attempt while a retry is left and
\* fails the request otherwise; a scheduled attempt starts at getBrowser.
C20_ReadinessTimeout ==
    [][ /\ (pc = "reloadAndWait" /\ err'.message = "timeout") =>
              /\ pc' = "catch"
              /\ loc.exports = 0
              /\ loc.pagesBuffer = <<>>
              /\ loc.pdf = <<>>
              /\ loc.resumeUrl = NoUrl
              /\ published' = published
        /\ (kind = "print" /\ loc'.exports > 0) => loc'.markerDoc # "none"
        /\ (pc = "catch" /\ err.message = "timeout") =>
              /\ pc' = "thrown"
              /\ err'.description = "timeout"
              /\ published' = published
        /\ (pc = "thrown" /\ err.description = "timeout") =>
              /\ published' = published
              /\ IF attempt <= retries
                 THEN /\ pc' = "backoff"
                      /\ Len(logs') = Len(logs) + 1
                 ELSE /\ pc' = "done"
                      /\ result'.status = "error"
        /\ pc = "backoff" =>
              /\ pc' = "getBrowser"
              /\ attempt' = attempt + 1
              /\ loc' = LocInit
      ]_vars

C20_Witness ==
    /\ kind = "print"
    /\ attempt = 2
    /\ mainErr.error.description = "timeout"
    /\ pc = "returned"

\* C21 (request immutability): the layout of the caller's resume object is
\* at every moment of the request the layout it had when the request was
\* made, with and without a format.
C21_RequestImmutable ==
    layout = layout0

\* the attempt has uploaded and is tearing down or has returned
Uploaded == pc \in {"close", "disconnect", "returned"}

\* C22 (output contract): an attempt uploads at most once.  A generatePreview
\* attempt that got as far has taken exactly one screenshot and stored it,
\* without any merge, for the resume's owner under "previews" and the resume
\* id; a generateResume attempt has stored the merged document for the owner
\* under "resumes" and the resume title; the value the attempt returns, and
\* the request with it, is the URL of that object.
C22_OutputContract ==
    /\ loc.uploads <= 1
    /\ Uploaded =>
          /\ loc.uploads = 1
          /\ published # <<>>
          /\ kind = "preview" =>
                /\ loc.exports = 1
                /\ Len(loc.pagesBuffer) = 1
                /\ loc.pdf = <<>>
                /\ loc.element = 0
                /\ published[Len(published)] =
                      [owner |-> "user-id", category |-> "previews",
                       pages |-> loc.pagesBuffer[1].pages, name |-> "resume-id"]
                /\ loc.resumeUrl =
                      [owner |-> "user-id", category |-> "previews", name |-> "resume-id"]
          /\ kind = "print" =>
                /\ loc.pdf = ConcatPages(loc.pagesBuffer)
                /\ published[Len(published)] =
                      [owner |-> "user-id", category |-> "resumes",
                       pages |-> loc.pdf, name |-> "resume-title"]
                /\ loc.resumeUrl =
                      [owner |-> "user-id", category |-> "resumes", name |-> "resume-title"]
    /\ result.status = "ok" =>
          /\ loc.uploads = 1
          /\ result.url = loc.resumeUrl

C22_Witness ==
    /\ kind = "preview"
    /\ result.status = "ok"
    /\ published[Len(published)].pages = <<1, 2>>

\* the steps of generateResume that follow the Promise.all
AfterPromiseAll ==
    /\ kind = "print"
    /\ pc \in {"formatCss", "addStyleTag", "formatPdf", "query", "width",
               "isolate", "continuousCss", "measure", "continuousPdf", "restore",
               "load", "save", "uploadResume", "close", "disconnect", "returned"}

\* C23 as stated: without a format, the document of the first navigation
\* already finds the payload in localStorage, and the tab is never reloaded.
C23_SeededBeforeNavigation ==
    (kind = "print" /\ format = "none" /\ page.doc # "blank") =>
        /\ storage = [present |-> TRUE, layout |-> layout]
        /\ page.doc = "first"

\* C23 (seeding), amended: generateResume, with or without a format, writes
\* the payload only when the first navigation is done, so the document of
\* that navigation was loaded without it (in a first attempt localStorage is
\* still empty then), and everything after the Promise.all works on a
\* reloaded document.  generatePreview registers the payload before its
\* navigation: the document it loads finds the payload and is never reloaded.
C23_SeedOrder ==
    /\ kind = "print" =>
          /\ pc \in {"mergeLayout", "goto"} => (page.doc = "blank" /\ loc.reload = "idle")
          /\ pc = "seed" =>
                /\ page.doc = "first"
                /\ loc.reload = "idle"
                /\ attempt = 1 => ~storage.present
          /\ loc.reload # "idle" => storage = [present |-> TRUE, layout |-> layout]
          /\ AfterPromiseAll => (loc.reload = "loaded" /\ page.doc = "reloaded")
    /\ kind = "preview" =>
          /\ page.doc \in {"blank", "first"}
          /\ page.doc = "first" =>
                /\ page.hook
                /\ storage = [present |-> TRUE, layout |-> layout]
          /\ loc.reload = "idle"

C23_Witness ==
    /\ kind = "print"
    /\ format = "none"
    /\ attempt = 1
    /\ pc = "query"
    /\ page.doc = "reloaded"

\* remote operations the attempt has started on its tab and not yet seen end
OperationsInFlight ==
    (IF loc.reload \in {"started", "committed"} THEN 1 ELSE 0)
        + (IF loc.wait = "waiting" THEN 1 ELSE 0)

\* C24 (one operation at a time): an attempt never has two remote operations
\* on its session in flight at the same time.
C24_OneOperationInFlight ==
    OperationsInFlight <= 1

\* C25 (per-page order): in the continuous branch the page loop starts at
\* index 1 and every step of processPage is followed, unless it fails, by
\* the next one in the order locate, read width, isolate (the body being the
\* document's own markup, which is saved), custom CSS if and only if it is
\* visible, measure, capture of the isolated page, restore.  Only the
\* restoration advances the index, by one, and the next page is located
\* after it.
C25_PageSteps ==
    [][ (kind = "print" /\ format = "none") =>
          /\ (pc = "reloadAndWait" /\ pc' \notin {"reloadAndWait", "catch"}) =>
                (pc' = "query" /\ loc'.index = 1 /\ loc'.pagesBuffer = <<>>)
          /\ pc = "query" => pc' \in {"query", "width", "catch"}
          /\ pc = "width" => pc' \in {"width", "isolate", "catch"}
          /\ pc = "isolate" =>
                /\ page.body = 0
                /\ pc' \in {"isolate", "catch",
                            IF cssVisible THEN "continuousCss" ELSE "measure"}
                /\ pc' \in {"continuousCss", "measure"} =>
                      /\ loc'.temporaryHtml = page.body
                      /\ page'.body = loc.index
          /\ pc = "continuousCss" =>
                /\ cssVisible
                /\ pc' \in {"continuousCss", "measure", "catch"}
                /\ pc' = "measure" => page'.customCss
          /\ pc = "measure" =>
                /\ page.body = loc.index
                /\ page.customCss <=> cssVisible
                /\ pc' \in {"measure", "continuousPdf", "catch"}
          /\ pc = "continuousPdf" =>
                /\ pc' \in {"continuousPdf", "restore", "catch"}
                /\ pc' = "restore" =>
                      /\ Len(loc'.pagesBuffer) = loc.index
                      /\ loc'.pagesBuffer[loc.index].pages = <<loc.index>>
          /\ pc = "restore" =>
                /\ pc' \in {"restore", "catch", "query", "load"}
                /\ pc' \in {"query", "load"} =>
                      /\ page'.body = 0
                      /\ loc'.index = loc.index + 1
                      /\ pc' = "query" <=> loc'.index <= loc.numberPages
          /\ (pc # "restore" /\ pc' \notin {"catch", "query"}) => loc'.index = loc.index
      ]_vars

C25_Witness ==
    /\ kind = "print"
    /\ format = "none"
    /\ cssVisible
    /\ page.customCss
    /\ pc = "load"
    /\ loc.index = 2
    /\ page.body = 0

\* C26 (formatted branch): with a format, the custom CSS is injected exactly
\* when it is visible and before the print styles, the print styles are in
\* place before the export, and the attempt makes one export, which yields
\* the one buffer that is merged; none of the steps of processPage is taken.
C26_FormattedBranch ==
    (kind = "print" /\ format # "none") =>
        /\ pc = "formatCss" =>
              /\ cssVisible
              /\ ~page.customCss
              /\ ~page.printStyles
        /\ pc = "addStyleTag" =>
              /\ page.customCss <=> cssVisible
              /\ ~page.printStyles
        /\ pc = "formatPdf" =>
              /\ page.customCss <=> cssVisible
              /\ page.printStyles
        /\ pc \in {"formatCss", "addStyleTag", "formatPdf"} =>
              /\ loc.exports = 0
              /\ loc.pagesBuffer = <<>>
        /\ loc.exports <= 1
        /\ (pc = "load" \/ Assembled) =>
              /\ loc.exports = 1
              /\ Len(loc.pagesBuffer) = 1
              /\ page.printStyles
              /\ page.customCss <=> cssVisible
        /\ pc \notin {"query", "width", "isolate", "continuousCss", "measure",
                      "continuousPdf", "restore"}

C26_Witness ==
    /\ kind = "print"
    /\ format = "Letter"
    /\ cssVisible
    /\ pc = "save"
    /\ loc.pagesBuffer[1].pages = <<1, 2>>

\* C27 (getVersion disconnects): a getVersion call that is over and had
\* connected has called disconnect exactly once, whether the version query
\* succeeded or failed, and has opened no tab.
C27_VersionDisconnects ==
    \A i \in 1..Len(health.calls) :
        health.calls[i].browser.id # 0 =>
            /\ health.calls[i].disconnectCalls = 1
            /\ health.calls[i].browser.opens = 0

RECURSIVE ConcatColumn(_, _)
\* column c of all pages of a layout, one after the other in page order
ConcatColumn(pages, c) ==
    IF pages = <<>> THEN <<>>
    ELSE Head(pages)[c] \o ConcatColumn(Tail(pages), c)

\* how often a key stands in a column
Occurrences(column, key) ==
    Cardinality({i \in 1..Len(column) : column[i] = key})

RECURSIVE OccurrencesIn(_, _, _)
\* how often a key stands in column c of the pages of a layout
OccurrencesIn(pages, c, key) ==
    IF pages = <<>> THEN 0
    ELSE Occurrences(Head(pages)[c], key) + OccurrencesIn(Tail(pages), c, key)

\* C28 (merged layout): without a format, the layout generateResume stores
\* and delivers is exactly one page of two columns; column c of it is column
\* c of the original pages one after the other in page order, so every key
\* stands in it as often as in column c of the original layout and no key
\* has changed its column.
C28_MergedLayout ==
    (format = "none" /\ pc \in {"goto", "seed", "reloadAndWait"}) =>
        /\ Len(layout) = 1
        /\ Len(layout[1]) = 2
        /\ \A c \in 1..2 :
              /\ layout[1][c] = ConcatColumn(layout0, c)
              /\ \A key \in {"A", "B"} :
                    Occurrences(layout[1][c], key) = OccurrencesIn(layout0, c, key)
        /\ loc.numberPages = 1
        /\ pc = "reloadAndWait" =>
              /\ loc.delivered = layout
              /\ storage.layout = layout

C28_Witness ==
    /\ format = "none"
    /\ pc = "reloadAndWait"
    /\ layout0 = << << <<"B", "A">>, <<"A">> >>, << <<"A">>, <<"B", "A">> >> >>
    /\ loc.delivered = << << <<"B", "A", "A">>, <<"A", "B", "A">> >> >>

\* C29 (upload once): over all attempts of one printResume or printPreview
\* call at most one upload succeeds, and once an attempt has uploaded no
\* further attempt of that call is started, also when the close or the
\* disconnect after the upload fails.
C29_UploadOnce ==
    /\ Len(published) <= 1
    /\ published # <<>> => pc \notin {"getBrowser", "newPage"}

\* C30 (marker in the reloaded document): when capture begins in
\* generateResume, the marker of the first page was found in the document
\* the reload produced, whatever the interleaving of reload and marker wait.
C30_MarkerAfterReload ==
    AfterPromiseAll => loc.markerDoc = "reloaded"

\* the one page the merge makes of the original layout of the request
MergedOnce == << << ConcatColumn(layout0, 1), ConcatColumn(layout0, 2) >> >>

\* C31 (idempotent merge): merging the layout a previous attempt has left
\* behind gives that layout again, so in every attempt of an unformatted
\* request the layout stored and delivered is the merge of the original
\* layout and the page count is 1, as in the first attempt.
C31_MergeIdempotent ==
    format = "none" =>
        /\ attempt >= 2 =>
              /\ layout = MergedOnce
              /\ LayoutAfterMerge(format, layout) = layout
        /\ pc \in {"goto", "seed", "reloadAndWait"} =>
              /\ layout = MergedOnce
              /\ loc.numberPages = 1
        /\ pc = "reloadAndWait" =>
              /\ loc.delivered = MergedOnce
              /\ storage.layout = MergedOnce

C31_Witness ==
    /\ format = "none"
    /\ attempt = 3
    /\ pc = "reloadAndWait"
    /\ layout0 = << << <<"B", "A">>, <<"A">> >>, << <<"A">>, <<"B", "A">> >> >>
    /\ loc.delivered = << << <<"B", "A", "A">>, <<"A", "B", "A">> >> >>
    /\ loc.numberPages = 1

\* the columns of the rendered header that hold the phone link
PhoneColumns ==
    {c \in {"left", "center", "right"} :
        \E i \in 1..Len(arceus[c]) : arceus[c][i].type = "phone"}

\* how many elements of a kind a column of the rendered header holds
Rendered(c, types) ==
    Cardinality({i \in 1..Len(arceus[c]) : arceus[c][i].type \in types})

\* C32 (phone placement): a rendered header shows the phone link in exactly
\* one column when basics.phone is set: the right one when the left column
\* holds more other entries (email, custom fields at odd indices) than the
\* right one (valid website, custom fields at even indices), the left one
\* when it holds fewer, the center when both hold as many; without a phone
\* no column shows one.
C32_PhonePlacement ==
    arceus.rendered =>
        LET basics == arceus.basics
            left   == (IF basics.email # "" THEN 1 ELSE 0)
                      + Cardinality({i \in 0..(Len(basics.customFields) - 1) : i % 2 = 1})
            right  == (IF isUrl(basics.url) THEN 1 ELSE 0)
                      + Cardinality({i \in 0..(Len(basics.customFields) - 1) : i % 2 = 0})
        IN  /\ left = Rendered("left", {"email", "custom"})
            /\ right = Rendered("right", {"url", "custom"})
            /\ \A c \in {"left", "center", "right"} : Rendered(c, {"phone"}) <= 1
            /\ basics.phone = "" => PhoneColumns = {}
            /\ basics.phone # "" =>
                  PhoneColumns = {IF left > right THEN "right"
                                  ELSE IF right > left THEN "left"
                                  ELSE "center"}

C32_Witness ==
    /\ arceus.rendered
    /\ arceus.basics.phone # ""
    /\ arceus.basics.email # ""
    /\ isUrl(arceus.basics.url)
    /\ Len(arceus.basics.customFields) = 2
    /\ PhoneColumns = {"center"}

\* how often a text stands in the lines
InLines(lines, text) ==
    Cardinality({<<i, j>> \in (1..Len(lines)) \X (1..MaxKeywords + 1) :
                    j <= Len(lines[i]) /\ lines[i][j] = text})

RECURSIVE TotalWidth(_)
\* the width of a line: its keywords and the separators between them
TotalWidth(line) ==
    IF line = <<>> THEN 0
    ELSE IF Len(line) = 1 THEN measureText(line[1])
    ELSE measureText(line[1]) + measureText(separator) + TotalWidth(Tail(line))

\* the texts of `order` whose line is j among the first p, in that order
LineBefore(order, a, j, p) ==
    SelectSeq([q \in 1..Len(order) |-> IF q <= p /\ a[q] = j THEN order[q] ELSE ""],
              LAMBDA text : text # "")

\* `lines` is what first fit makes of the keywords taken in the order
\* `order`, with a[p] the line of the p-th of them
IsFirstFit(lines, order, a, containerWidth) ==
    /\ \A j \in 1..Len(lines) : lines[j] = LineBefore(order, a, j, Len(order))
    /\ \A p \in 1..Len(order) :
          /\ \A i \in 1..(a[p] - 1) :
                /\ LineBefore(order, a, i, p - 1) # <<>>
                /\ TotalWidth(LineBefore(order, a, i, p - 1))
                     + measureText(separator) + measureText(order[p]) > containerWidth
          /\ LineBefore(order, a, a[p], p - 1) # <<>> =>
                TotalWidth(LineBefore(order, a, a[p], p)) <= containerWidth

\* the orders in which keywords of descending width can be taken
DescendingOrders(keywords) ==
    {order \in [1..Len(keywords) -> {"a", "bb", "cc"}] :
        /\ \A text \in {"a", "bb", "cc"} :
              Occurrences(order, text) = Occurrences(keywords, text)
        /\ \A p \in 1..(Len(order) - 1) :
              measureText(order[p]) >= measureText(order[p + 1])}

\* C33 (first fit decreasing): the lines of an OptimizedKeywords component
\* that has computed its layout are what first fit makes of the keywords
\* taken by descending width at the container width of that computation;
\* every keyword stands in the lines as often as in the input, no line is
\* empty, a line of several keywords is no wider than the container, and the
\* keywords array still holds what was passed.  Without a computation there
\* are no lines.
C33_FirstFitDecreasing ==
    /\ optimized.keywords = optimized.passed
    /\ optimized.layoutWidth = 0 => optimized.lines = <<>>
    /\ optimized.layoutWidth # 0 =>
          /\ \A text \in {"a", "bb", "cc"} :
                InLines(optimized.lines, text) = Occurrences(optimized.passed, text)
          /\ \A i \in 1..Len(optimized.lines) :
                /\ optimized.lines[i] # <<>>
                /\ Len(optimized.lines[i]) > 1 =>
                      TotalWidth(optimized.lines[i]) <= optimized.layoutWidth
          /\ \E order \in DescendingOrders(optimized.passed) :
                \E a \in [1..Len(order) -> 1..Len(optimized.lines)] :
                    IsFirstFit(optimized.lines, order, a, optimized.layoutWidth)

C33_Witness ==
    /\ optimized.passed = <<"a", "bb", "a">>
    /\ optimized.layoutWidth = 4
    /\ optimized.lines = << <<"bb", "a">>, <<"a">> >>

\* C34 (tool teardown): a run of the generate-preview tool that has launched
\* the browser calls close exactly once by the time it is over, whichever
\* step succeeded or threw, and never before its finally clause; a run whose
\* launch failed, or that found no Chrome executable, never calls close, has
\* logged the error and does not reject.
C34_ToolClosesOnce ==
    /\ tool.launches <= 1
    /\ tool.closeCalls <= tool.launches
    /\ tool.pc \notin {"finally", "done"} => tool.closeCalls = 0
    /\ tool.pc = "done" =>
          /\ tool.closeCalls = tool.launches
          /\ tool.launches = 1 => tool.browser # "undefined"
          /\ (tool.launches = 0 /\ tool.sample = "valid") =>
                /\ tool.browser = "undefined"
                /\ Len(tool.logged) = 1
                /\ tool.logged[1] = tool.error
                /\ tool.error = IF getExecutablePath(tool.existing) = NoPath
                                THEN "Could not find Google Chrome installation"
                                ELSE "launch"
                /\ ~tool.rejected
                /\ tool.exit = "none"
          /\ (tool.error # "none" /\ tool.launches = 1) =>
                /\ tool.logged = <<tool.error>>
                /\ ~tool.written

\* a run whose screenshot failed after a launch, and that has closed
C34_Witness ==
    /\ tool.pc = "done"
    /\ tool.launches = 1
    /\ tool.error = "screenshot"
    /\ tool.closeCalls = 1
    /\ tool.browser = "closed"

====
